---- MODULE Spec2Model ----
(***************************************************************************)
(* Model of the USD stepper firmware motion core.                          *)
(*                                                                         *)
(*   MotionController      firmware/lib/usd_core/motion_controller.cpp     *)
(*   GenericStepDirDriver  firmware/lib/usd_drivers/step_dir_driver.cpp    *)
(*   McpwmStepper          firmware/lib/usd_drivers/mcpwm_stepper.cpp      *)
(*                                                                         *)
(* Every method is an operator from the system record                      *)
(*   [mc |-> controller, drv |-> driver, gen |-> pulse generator]          *)
(* to the system record after the call plus the returned value (ret; TRUE  *)
(* for a void method).  The fields motion_start_time_ and last_tick_time_  *)
(* are written from millis() and never read; they are left out.            *)
(* All quantities stay far below 2^31 inside the bounds, so the unsigned   *)
(* 32/64-bit arithmetic of the source never wraps here.                    *)
(***************************************************************************)
EXTENDS Integers, Sequences, FiniteSets, TLC

\* ------------------------------------------------------------------ bounds
\* Positions handled by the model lie in 0..MaxPos.
MaxPos == 2
\* Largest commanded velocity (start_velocity argument, params.max_velocity).
MaxVel == 2

PosRange == 0..MaxPos

\* Tick periods in microseconds offered to tick(): 0, 0.5 s, 1 s; with the
\* acceleration of Configs they change the velocity by 0, 1 and 2.
DtSet == {0, 500000, 1000000}

\* Configurations handed to MotionController(const MotionConfig&) and
\* setConfig(); disable_on_idle and idle_disable_ms are never read.  The
\* values are DEFAULT_CONFIG scaled down: velocity 10000 -> MaxVel,
\* acceleration 50000 -> 2, floor 100 -> 1; tolerance and auto-enable as there.
Configs ==
  { [default_velocity |-> MaxVel, default_acceleration |-> 2, min_velocity |-> 1,
     position_tolerance |-> 1, enable_on_motion |-> TRUE] }

\* ------------------------------------------------------------ enumerations
MotionStates == {"IDLE", "ACCELERATING", "CRUISING", "DECELERATING",
                 "HOLDING", "FAULT", "HOMING"}
MoveTypes == {"RELATIVE", "ABSOLUTE", "VELOCITY", "HOMING"}

\* Frequency limits of the PWM pulse generator.
MIN_FREQUENCY == 1
MAX_FREQUENCY == 500000

\* active_params_{} : value-initialised MotionParams
ZeroParams ==
  [target_position |-> 0, max_velocity |-> 0, acceleration |-> 0,
   deceleration |-> 0, jerk |-> 0, profile |-> "TRAPEZOIDAL",
   move_type |-> "RELATIVE"]

\* Parameters offered to startMove(): the two move types moveTo() and
\* moveBy() do not build, with no acceleration of their own.
ParamSet ==
  { [target_position |-> 1, max_velocity |-> MaxVel, acceleration |-> 0,
     deceleration |-> 0, jerk |-> 0, profile |-> "TRAPEZOIDAL",
     move_type |-> t] : t \in {"VELOCITY", "HOMING"} }

VARIABLES
  mc,     \* the MotionController object
  drv,    \* the GenericStepDirDriver object
  gen,    \* the McpwmStepper object
  hist,   \* the last call: its name, position argument and returned value,
          \* and for a stop or a moveTo() the controller state and generator
          \* activity it was made in
  tk,     \* the motion task inside tick(): its position and its locals
  es,     \* a second task inside emergencyStop(): its position
  cobs,   \* the byte-stuffing codec at work: its input, the call made and
          \* the buffers and lengths the calls returned
  traj,   \* the TrapezoidalTrajectory object
  tcall,  \* the last call on the trajectory and the TrajectoryState returned
  tmove,  \* the TrajectoryParams of the move the trajectory's caller makes
  scurve, \* the SCurveTrajectory object
  scall,  \* the last call on the S-curve and the SCurveState returned
  smove,  \* the SCurveParams of the move the S-curve's caller makes
  mcpwm,  \* a McpwmStepper object driven on its own
  timer,  \* a TimerStepper object given the same calls, with its step timer
  gcall,  \* the last call on the two generators and what each returned
  caller  \* a task inside a TimerStepper method: the line it has reached

vars == <<mc, drv, gen, hist, tk, es, cobs, traj, tcall, tmove,
          scurve, scall, smove, mcpwm, timer, gcall, caller>>

\* The motion controller with its driver and generator, and the objects it
\* never touches.
Motion == <<mc, drv, gen, hist, tk, es>>
Planner == <<traj, tcall, tmove>>
Smooth == <<scurve, scall, smove>>
Pulse == <<mcpwm, timer, gcall, caller>>
Aside == <<cobs, Planner, Smooth, Pulse>>

Sys(m, d, g, r) == [mc |-> m, drv |-> d, gen |-> g, ret |-> r]
Cur == [mc |-> mc, drv |-> drv, gen |-> gen]

Abs(x) == IF x < 0 THEN 0 - x ELSE x

\* ------------------------------------------------- GenericStepDirDriver
DriverEnable(d) ==
  IF d.state = "FAULT" THEN [drv |-> d, ret |-> FALSE]
  ELSE [drv |-> [d EXCEPT !.state = "ENABLED"], ret |-> TRUE]

DriverDisable(d) == [d EXCEPT !.state = "DISABLED"]

DriverSetDirection(d, dir) == [d EXCEPT !.direction = dir]

DriverSetPosition(d, p) == [d EXCEPT !.position = p]

\* step(): one pulse, position follows the direction
DriverStepOnce(d) ==
  IF d.state # "ENABLED" THEN [drv |-> d, ret |-> FALSE]
  ELSE [drv |-> [d EXCEPT !.position =
                    IF d.direction = "CW" THEN @ + 1 ELSE @ - 1],
        ret |-> TRUE]

\* ---------------------------------------------------------- McpwmStepper
StepperInit(g) == [g EXCEPT !.initialized = TRUE]

StepperStart(g) ==
  IF ~g.initialized \/ g.frequency_hz = 0 THEN [gen |-> g, ret |-> FALSE]
  ELSE [gen |-> [g EXCEPT !.state = "RUNNING"], ret |-> TRUE]

StepperStop(g) ==
  IF g.state = "IDLE" THEN g ELSE [g EXCEPT !.state = "IDLE"]

StepperSetFrequency(g, hz) ==
  IF hz < MIN_FREQUENCY \/ hz > MAX_FREQUENCY THEN [gen |-> g, ret |-> FALSE]
  ELSE [gen |-> [g EXCEPT !.frequency_hz = hz], ret |-> TRUE]

StepperIsRunning(g) == g.state = "RUNNING"

\* ------------------------------------------------------ MotionController
isHardwareAttached(s) == s.mc.driver_attached /\ s.mc.stepper_attached

isEnabled(s) ==
  s.mc.enabled /\ s.mc.driver_attached /\ s.drv.state = "ENABLED"

isMoving(m) == m.state \in {"ACCELERATING", "CRUISING", "DECELERATING"}

setState_Homing(m, new_state) ==
  [m EXCEPT !.state = IF new_state = "HOLDING" THEN "HOMING" ELSE new_state]

setState(m, new_state) == [m EXCEPT !.state = new_state]

attachDriver(s) == Sys([s.mc EXCEPT !.driver_attached = TRUE], s.drv, s.gen, TRUE)

attachStepper(s) == Sys([s.mc EXCEPT !.stepper_attached = TRUE], s.drv, s.gen, TRUE)

enable(s) ==
  IF ~s.mc.driver_attached THEN Sys(s.mc, s.drv, s.gen, FALSE)
  ELSE LET r == DriverEnable(s.drv)
       IN IF r.ret THEN Sys([s.mc EXCEPT !.enabled = TRUE], r.drv, s.gen, TRUE)
          ELSE Sys(s.mc, r.drv, s.gen, FALSE)

\* emergencyStop() without the stepper_->stop() call
emergencyStop_KeepsPulsing(s) ==
  Sys(setState([s.mc EXCEPT !.current_velocity = 0], "IDLE"), s.drv, s.gen, TRUE)

emergencyStop(s) ==
  LET g == IF s.mc.stepper_attached THEN StepperStop(s.gen) ELSE s.gen
  IN Sys(setState([s.mc EXCEPT !.current_velocity = 0], "IDLE"), s.drv, g, TRUE)

disable(s) ==
  LET s1 == IF s.mc.state # "IDLE" THEN emergencyStop(s) ELSE s
      d  == IF s1.mc.driver_attached THEN DriverDisable(s1.drv) ELSE s1.drv
  IN Sys([s1.mc EXCEPT !.enabled = FALSE], d, s1.gen, TRUE)

\* stop() without the early return for IDLE / HOLDING
stop_NoEarlyReturn(s) ==
  Sys([setState(s.mc, "DECELERATING") EXCEPT !.target_velocity = 0],
      s.drv, s.gen, TRUE)

stop(s) ==
  IF s.mc.state = "IDLE" \/ s.mc.state = "HOLDING"
  THEN Sys(s.mc, s.drv, s.gen, TRUE)
  ELSE Sys([setState(s.mc, "DECELERATING") EXCEPT !.target_velocity = 0],
           s.drv, s.gen, TRUE)

\* calculateTrajectory(): only re-derives the target velocity
calculateTrajectory(m) ==
  [m EXCEPT !.target_velocity = m.active_params.max_velocity]

\* "Start step generator": setFrequency(min_velocity); start(); results dropped
startStepGenerator(s) ==
  IF s.mc.stepper_attached
  THEN StepperStart(StepperSetFrequency(s.gen, s.mc.config.min_velocity).gen).gen
  ELSE s.gen

\* startMove() from "Set direction" on: m holds the stored parameters and the
\* computed target
beginMotion_NoHolding(m, d, g, params) ==
  LET d1 == DriverSetDirection(d,
              IF m.target_position > m.current_position THEN "CW" ELSE "CCW")
      m1 == calculateTrajectory([m EXCEPT !.target_velocity = params.max_velocity])
      m2 == setState(m1, "ACCELERATING")
  IN Sys(m2, d1, startStepGenerator([mc |-> m2, drv |-> d1, gen |-> g]), TRUE)

beginMotion(m, d, g, params) ==
  IF m.target_position = m.current_position
  THEN Sys(setState(m, "HOLDING"), d, g, TRUE)
  ELSE
    LET d1 == DriverSetDirection(d,
                IF m.target_position > m.current_position THEN "CW" ELSE "CCW")
        m1 == calculateTrajectory([m EXCEPT !.target_velocity = params.max_velocity])
        m2 == setState(m1, "ACCELERATING")
    IN Sys(m2, d1, startStepGenerator([mc |-> m2, drv |-> d1, gen |-> g]), TRUE)

startMove(s, params) ==
  IF ~isHardwareAttached(s) THEN Sys(s.mc, s.drv, s.gen, FALSE)
  ELSE
    LET needEnable == s.mc.config.enable_on_motion /\ ~isEnabled(s)
        e == IF needEnable THEN enable(s) ELSE Sys(s.mc, s.drv, s.gen, TRUE)
    IN IF ~e.ret THEN Sys(e.mc, e.drv, e.gen, FALSE)
       ELSE
         LET m1 == [e.mc EXCEPT !.active_params = params]
             m2 == CASE params.move_type = "ABSOLUTE" ->
                          [m1 EXCEPT !.target_position = params.target_position]
                     [] params.move_type = "RELATIVE" ->
                          [m1 EXCEPT !.target_position =
                               m1.current_position + params.target_position]
                     [] params.move_type = "VELOCITY" ->
                          [m1 EXCEPT !.target_velocity = params.max_velocity]
                     [] OTHER -> m1
         IN IF params.move_type = "HOMING" THEN Sys(m2, e.drv, e.gen, FALSE)
            ELSE beginMotion(m2, e.drv, e.gen, params)

moveParams(s, position, type) ==
  [target_position |-> position,
   max_velocity |-> s.mc.config.default_velocity,
   acceleration |-> s.mc.config.default_acceleration,
   deceleration |-> s.mc.config.default_acceleration,
   jerk |-> 0, profile |-> "TRAPEZOIDAL", move_type |-> type]

moveTo(s, position) == startMove(s, moveParams(s, position, "ABSOLUTE"))

moveBy(s, distance) == startMove(s, moveParams(s, distance, "RELATIVE"))

\* startVelocity() whose last branch is taken for velocity <= 0: no stop()
startVelocity_NoZero(s, velocity) ==
  IF ~isHardwareAttached(s) THEN Sys(s.mc, s.drv, s.gen, FALSE)
  ELSE
    LET needEnable == s.mc.config.enable_on_motion /\ ~isEnabled(s)
        e == IF needEnable THEN enable(s) ELSE Sys(s.mc, s.drv, s.gen, TRUE)
    IN IF ~e.ret THEN Sys(e.mc, e.drv, e.gen, FALSE)
       ELSE
         LET d  == DriverSetDirection(e.drv, IF velocity > 0 THEN "CW" ELSE "CCW")
             m1 == [e.mc EXCEPT !.target_velocity = Abs(velocity)]
             m2 == [m1 EXCEPT !.active_params.max_velocity = m1.target_velocity,
                              !.active_params.move_type = "VELOCITY"]
             m3 == setState(m2, "ACCELERATING")
         IN Sys(m3, d, startStepGenerator([mc |-> m3, drv |-> d, gen |-> e.gen]), TRUE)

startVelocity(s, velocity) ==
  IF ~isHardwareAttached(s) THEN Sys(s.mc, s.drv, s.gen, FALSE)
  ELSE
    LET needEnable == s.mc.config.enable_on_motion /\ ~isEnabled(s)
        e == IF needEnable THEN enable(s) ELSE Sys(s.mc, s.drv, s.gen, TRUE)
    IN IF ~e.ret THEN Sys(e.mc, e.drv, e.gen, FALSE)
       ELSE IF velocity = 0 THEN stop([mc |-> e.mc, drv |-> e.drv, gen |-> e.gen])
       ELSE
         LET d  == DriverSetDirection(e.drv, IF velocity > 0 THEN "CW" ELSE "CCW")
             m1 == [e.mc EXCEPT !.target_velocity = Abs(velocity)]
             m2 == [m1 EXCEPT !.active_params.max_velocity = m1.target_velocity,
                              !.active_params.move_type = "VELOCITY"]
             m3 == setState(m2, "ACCELERATING")
         IN Sys(m3, d, startStepGenerator([mc |-> m3, drv |-> d, gen |-> e.gen]), TRUE)

\* getStatus(): the derived fields of MotionStatus
getStatus(m) ==
  LET distance == m.target_position - m.current_position
      togo == IF distance >= 0 THEN distance ELSE 0 - distance
  IN [state |-> m.state, current_position |-> m.current_position,
      target_position |-> m.target_position,
      current_velocity |-> m.current_velocity,
      distance_to_go |-> togo,
      in_motion |-> (m.state = "ACCELERATING" \/ m.state = "CRUISING"
                     \/ m.state = "DECELERATING"),
      at_target |-> (togo <= m.config.position_tolerance)]

setPosition(s, position) ==
  Sys([s.mc EXCEPT !.current_position = position],
      IF s.mc.driver_attached THEN DriverSetPosition(s.drv, position) ELSE s.drv,
      s.gen, TRUE)

resetPosition(s) == setPosition(s, 0)

\* setConfig() that also re-synchronises the position from the driver
setConfig_SyncsPosition(s, config) ==
  Sys([s.mc EXCEPT !.config = config, !.current_position = s.drv.position],
      s.drv, s.gen, TRUE)

setConfig(s, config) == Sys([s.mc EXCEPT !.config = config], s.drv, s.gen, TRUE)

\* -------------------------------------------------------------- tick path
activeAccel(m) ==
  IF m.active_params.acceleration = 0 THEN m.config.default_acceleration
  ELSE m.active_params.acceleration

updateVelocity(m, dt_us) ==
  IF dt_us = 0 THEN m
  ELSE
    LET accel == activeAccel(m)
        \* (accel * dt_us) / 1000000 of the 64-bit product, taken in two
        \* parts, accel = 1000 * (accel / 1000) + accel % 1000, so that no
        \* intermediate value passes 2^31
        delta_v == (accel \div 1000) * (dt_us \div 1000)
                   + ((accel \div 1000) * (dt_us % 1000) * 1000
                      + (accel % 1000) * dt_us) \div 1000000
        cv   == m.current_velocity
        tv   == m.target_velocity
        minv == m.config.min_velocity
        v1 == CASE m.state = "ACCELERATING" ->
                     IF cv < tv
                     THEN (IF cv + delta_v > tv THEN tv ELSE cv + delta_v)
                     ELSE cv
                [] m.state = "DECELERATING" ->
                     IF cv > minv
                     THEN (IF delta_v < cv - minv THEN cv - delta_v ELSE minv)
                     ELSE cv
                [] m.state = "CRUISING" -> tv
                [] OTHER -> cv
        v2 == IF v1 < minv /\ isMoving(m) THEN minv ELSE v1
    IN [m EXCEPT !.current_velocity = v2]

applyVelocity(m, g) ==
  IF m.stepper_attached /\ isMoving(m)
     /\ m.current_velocity >= m.config.min_velocity
  THEN StepperSetFrequency(g, m.current_velocity).gen
  ELSE g

\* "Update position from driver"
readPosition(m, d) ==
  IF m.driver_attached THEN [m EXCEPT !.current_position = d.position] ELSE m

\* A deceleration distance without the factor two.
decelDistance_Doubled(m) ==
  (m.current_velocity * m.current_velocity) \div activeAccel(m)

\* decel_distance = (v * v) / (2 * a)
decelDistance(m) ==
  (m.current_velocity * m.current_velocity) \div (2 * activeAccel(m))

\* checkTransitions(): the new controller and pulse generator
checkTransitions(m, g) ==
  LET abs_distance == Abs(m.target_position - m.current_position)
      stopped == IF m.stepper_attached THEN StepperStop(g) ELSE g
  IN CASE m.state = "ACCELERATING" ->
            LET a1 == IF m.current_velocity >= m.target_velocity
                      THEN setState(m, "CRUISING") ELSE m
                a2 == IF a1.active_params.move_type # "VELOCITY"
                         /\ abs_distance <= decelDistance(a1)
                      THEN setState(a1, "DECELERATING") ELSE a1
            IN [mc |-> a2, gen |-> g]
       [] m.state = "CRUISING" ->
            [mc |-> IF m.active_params.move_type # "VELOCITY"
                       /\ abs_distance <= decelDistance(m)
                    THEN setState(m, "DECELERATING") ELSE m,
             gen |-> g]
       [] m.state = "DECELERATING" ->
            IF abs_distance <= m.config.position_tolerance
            THEN [mc |-> setState([m EXCEPT !.current_velocity = 0], "HOLDING"),
                  gen |-> stopped]
            ELSE IF m.current_velocity <= m.config.min_velocity
            THEN [mc |-> setState([m EXCEPT !.current_velocity = 0], "IDLE"),
                  gen |-> stopped]
            ELSE [mc |-> m, gen |-> g]
       [] OTHER -> [mc |-> m, gen |-> g]

tick(s, dt_us) ==
  IF s.mc.state = "IDLE" \/ s.mc.state = "FAULT"
  THEN Sys(s.mc, s.drv, s.gen, TRUE)
  ELSE
    LET m1 == updateVelocity(s.mc, dt_us)
        g1 == applyVelocity(m1, s.gen)
        m2 == readPosition(m1, s.drv)
        r  == checkTransitions(m2, g1)
    IN Sys(r.mc, s.drv, r.gen, TRUE)

\* ------------------------------------------------------------------- Init
\* MotionController(config), GenericStepDirDriver(pins, timing),
\* McpwmStepper(step_pin, config): the objects right after construction.
InitMc(config) ==
  [driver_attached |-> FALSE, stepper_attached |-> FALSE, config |-> config,
   state |-> "IDLE", current_position |-> 0, target_position |-> 0,
   current_velocity |-> 0, target_velocity |-> 0,
   active_params |-> ZeroParams, enabled |-> FALSE]

InitDrv == [state |-> "DISABLED", direction |-> "CW", position |-> 0]

InitGen ==
  [state |-> "IDLE", frequency_hz |-> 0, step_count |-> 0,
   target_steps |-> 0, initialized |-> FALSE]

\* No call of tick() or emergencyStop() in progress.
TkIdle == [pc |-> "idle", dt |-> 0, delta_v |-> 0, abs_distance |-> 0]
EsIdle == [pc |-> "idle", overlap |-> FALSE]

\* The codec before any call, holding the bytes x it will be given.  enc and
\* dec are what cobs_encode() and cobs_decode() returned: the length, and the
\* bytes written to the output buffer.
NoBuffer == [len |-> 0, out |-> <<>>]
NoFrame == [message_id |-> 0, payload |-> <<>>, crc |-> 0]
CobsNew(x) ==
  [op |-> "none", input |-> x, frame |-> NoFrame, enc |-> NoBuffer,
   dec |-> NoBuffer]

\* TrajectoryParams{} and TrajectoryTiming{}, value-initialised.
ZeroTrajectoryParams ==
  [distance |-> 0, max_velocity |-> 0, acceleration |-> 0, deceleration |-> 0,
   start_velocity |-> 0, end_velocity |-> 0]
ZeroTiming ==
  [accel_time_us |-> 0, cruise_time_us |-> 0, decel_time_us |-> 0,
   total_time_us |-> 0, accel_distance |-> 0, cruise_distance |-> 0,
   decel_distance |-> 0, peak_velocity |-> 0, is_triangle |-> FALSE]

\* TrapezoidalTrajectory::TrapezoidalTrajectory()
InitTraj ==
  [params |-> ZeroTrajectoryParams, timing |-> ZeroTiming, phase |-> "IDLE",
   elapsed_us |-> 0, current_position |-> 0, current_velocity |-> 0,
   planned |-> FALSE, started |-> FALSE, direction |-> 1]

\* No call made on the trajectory yet.
NoTrajectoryState ==
  [phase |-> "IDLE", elapsed_us |-> 0, position |-> 0, velocity |-> 0,
   remaining |-> 0]
NoCall == [op |-> "construct", arg |-> 0, ret |-> TRUE, state |-> NoTrajectoryState]

\* The calls whose starting state the record of the last call keeps.
Observed == {"stop", "emergencyStop", "moveTo"}

Record(op, arg, ret) ==
  [op |-> op, arg |-> arg, ret |-> ret,
   from |-> IF op \in Observed THEN mc.state ELSE "IDLE",
   was_running |-> op \in Observed /\ StepperIsRunning(gen)]

Call(op, arg, params, r) ==
  /\ mc' = r.mc
  /\ drv' = r.drv
  /\ gen' = r.gen
  /\ hist' = Record(op, arg, r.ret)
  /\ UNCHANGED <<tk, es, Aside>>

InitMotion ==
  /\ \E c \in Configs : mc = InitMc(c)
  /\ drv = InitDrv
  /\ gen = InitGen
  /\ hist = Record("construct", 0, TRUE)
  /\ tk = TkIdle
  /\ es = EsIdle

\* The trajectory as constructed, its caller holding the parameters p.
InitPlanner(p) ==
  /\ traj = InitTraj
  /\ tcall = NoCall
  /\ tmove = p

\* SCurveParams{} and SCurveTiming{}
ZeroSCurveParams ==
  [distance |-> 0, max_velocity |-> 0, max_acceleration |-> 0, max_jerk |-> 0]

ZeroSCurveTiming ==
  [t_jerk_accel |-> 0, t_const_accel |-> 0, t_cruise |-> 0, t_jerk_decel |-> 0,
   t_const_decel |-> 0, total_time_us |-> 0, v_achieved |-> 0, a_achieved |-> 0,
   is_reduced |-> FALSE]

\* SCurveTrajectory(); t_end holds t_end_j1_ .. t_end_d_
InitSCurve ==
  [params |-> ZeroSCurveParams, timing |-> ZeroSCurveTiming, phase |-> "IDLE",
   elapsed_us |-> 0, phase_elapsed_us |-> 0, current_position |-> 0,
   current_velocity |-> 0, current_acceleration |-> 0, planned |-> FALSE,
   started |-> FALSE, direction |-> 1,
   t_end |-> [j1 |-> 0, a |-> 0, j2 |-> 0, c |-> 0, j3 |-> 0, d |-> 0]]

\* An SCurveState (progress, a float, is left out)
SCurveStateOf(t) ==
  [phase |-> t.phase, elapsed_us |-> t.elapsed_us,
   position |-> t.current_position * t.direction,
   velocity |-> t.current_velocity, acceleration |-> t.current_acceleration]

\* The S-curve as constructed, its caller holding the parameters p.
InitSmooth(p) ==
  /\ scurve = InitSCurve
  /\ scall = [op |-> "construct", arg |-> 0, ret |-> TRUE,
              state |-> SCurveStateOf(InitSCurve)]
  /\ smove = p

\* TimerStepper(); armed says whether step_timer_ is started
InitTimer ==
  [state |-> "IDLE", frequency_hz |-> 0, step_count |-> 0,
   target_steps |-> 0, initialized |-> FALSE, pulse_high |-> FALSE,
   armed |-> FALSE]

\* The two generators as constructed.
InitPulse ==
  /\ mcpwm = InitGen
  /\ timer = InitTimer
  /\ gcall = [op |-> "construct", arg |-> 0, ret |-> <<TRUE, TRUE>>]
  /\ caller = "idle"

Init ==
  /\ InitMotion
  /\ cobs = CobsNew(<<>>)
  /\ InitPlanner(ZeroTrajectoryParams)
  /\ InitSmooth(ZeroSCurveParams)
  /\ InitPulse

\* ---------------------------------------------------------------- actions
AttachDriver == ~mc.driver_attached /\ Call("attachDriver", 0, ZeroParams, attachDriver(Cur))

AttachStepper == ~mc.stepper_attached /\ Call("attachStepper", 0, ZeroParams, attachStepper(Cur))

\* stepper.init() by the application before or after attaching
InitStepper ==
  /\ ~gen.initialized
  /\ Call("stepperInit", 0, ZeroParams, Sys(mc, drv, StepperInit(gen), TRUE))

\* driver.step(): one motor step taken by the hardware side
DriverStep ==
  /\ mc.driver_attached
  /\ LET r == DriverStepOnce(drv)
     IN /\ r.ret
        /\ r.drv.position \in PosRange
        /\ Call("driverStep", 0, ZeroParams, Sys(mc, r.drv, gen, TRUE))

Enable == Call("enable", 0, ZeroParams, enable(Cur))

Disable == Call("disable", 0, ZeroParams, disable(Cur))

StartMove == \E p \in ParamSet :
  /\ p.move_type = "RELATIVE" => mc.current_position + p.target_position \in PosRange
  /\ Call("startMove", p.target_position, p, startMove(Cur, p))

MoveTo == \E p \in PosRange : Call("moveTo", p, ZeroParams, moveTo(Cur, p))

MoveBy == \E d \in {0 - 1, 0, 1} :
  /\ mc.current_position + d \in PosRange
  /\ Call("moveBy", d, ZeroParams, moveBy(Cur, d))

StartVelocity == \E v \in {0 - MaxVel, 0, MaxVel} :
  Call("startVelocity", 0, ZeroParams, startVelocity(Cur, v))

EmergencyStop == Call("emergencyStop", 0, ZeroParams, emergencyStop(Cur))

Stop == Call("stop", 0, ZeroParams, stop(Cur))

SetPosition == \E p \in PosRange : Call("setPosition", p, ZeroParams, setPosition(Cur, p))

ResetPosition == Call("resetPosition", 0, ZeroParams, resetPosition(Cur))

SetConfig == \E c \in Configs : Call("setConfig", 0, ZeroParams, setConfig(Cur, c))

Tick == \E dt \in DtSet : Call("tick", 0, ZeroParams, tick(Cur, dt))

Next ==
  \/ AttachDriver
  \/ AttachStepper
  \/ InitStepper
  \/ DriverStep
  \/ Enable
  \/ Disable
  \/ StartMove
  \/ MoveTo
  \/ MoveBy
  \/ StartVelocity
  \/ EmergencyStop
  \/ Stop
  \/ SetPosition
  \/ ResetPosition
  \/ SetConfig
  \/ Tick

Spec == Init /\ [][Next]_vars

\* ------------------------------------------- velocity mode at high rates
\* A configuration whose default velocity and acceleration lie one above the
\* generator's MAX_FREQUENCY; floor, tolerance and auto-enable as in Configs.
FastConfig ==
  [default_velocity |-> MAX_FREQUENCY + 1,
   default_acceleration |-> MAX_FREQUENCY + 1, min_velocity |-> 1,
   position_tolerance |-> 1, enable_on_motion |-> TRUE]

\* Velocities commanded at and one above MAX_FREQUENCY, in both directions.
FastVelocities ==
  {0 - (MAX_FREQUENCY + 1), 0 - MAX_FREQUENCY, MAX_FREQUENCY, MAX_FREQUENCY + 1}

InitFast ==
  /\ mc = InitMc(FastConfig)
  /\ drv = InitDrv
  /\ gen = InitGen
  /\ hist = Record("construct", 0, TRUE)
  /\ tk = TkIdle
  /\ es = EsIdle
  /\ cobs = CobsNew(<<>>)
  /\ InitPlanner(ZeroTrajectoryParams)
  /\ InitSmooth(ZeroSCurveParams)
  /\ InitPulse

StartVelocityFast == \E v \in FastVelocities :
  Call("startVelocity", 0, ZeroParams, startVelocity(Cur, v))

\* The controller run in velocity mode only: no positional move is started,
\* so the deceleration distance v * v / (2 * a) is never computed.
NextFast ==
  \/ AttachDriver
  \/ AttachStepper
  \/ InitStepper
  \/ StartVelocityFast
  \/ Stop
  \/ EmergencyStop
  \/ Tick

SpecFast == InitFast /\ [][NextFast]_vars

\* ------------------------------------------------ the motion task's period
\* Periods at which the motion task calls tick(): 0.5 s and 1 s.  With the
\* acceleration of Configs the velocity changes by 1 and 2 a tick.
PeriodSet == {500000, 1000000}

\* The objects as constructed, the motion task (not inside tick()) holding
\* in tk.dt the period it will call tick() with.
InitStop ==
  /\ \E c \in Configs : mc = InitMc(c)
  /\ drv = InitDrv
  /\ gen = InitGen
  /\ hist = Record("construct", 0, TRUE)
  /\ \E period \in PeriodSet : tk = [TkIdle EXCEPT !.dt = period]
  /\ es = EsIdle
  /\ cobs = CobsNew(<<>>)
  /\ InitPlanner(ZeroTrajectoryParams)
  /\ InitSmooth(ZeroSCurveParams)
  /\ InitPulse

\* Accelerations given to setAcceleration(): that of Configs and half of it,
\* with which a tick of 0.5 s changes the velocity by 0.
AccelSet == {1, 2}

setAcceleration(s, acceleration) ==
  Sys([s.mc EXCEPT !.config.default_acceleration = acceleration],
      s.drv, s.gen, TRUE)

SetAcceleration == \E a \in AccelSet :
  Call("setAcceleration", 0, ZeroParams, setAcceleration(Cur, a))

\* The periodic tick(dt_us) of the motion task.
TickPeriod == Call("tick", 0, ZeroParams, tick(Cur, tk.dt))

\* The application attaches the driver, then the generator, and initialises
\* it; moves are commanded at rest, the acceleration is changed and stop()
\* called during a move before it decelerates; while the axis decelerates
\* only the motion task runs and the motor steps.
Ready == isHardwareAttached(Cur) /\ gen.initialized
AtRest == Ready /\ mc.state \in {"IDLE", "HOLDING"}
Underway == mc.state \in {"ACCELERATING", "CRUISING"}

NextStop ==
  \/ AttachDriver
  \/ mc.driver_attached /\ AttachStepper
  \/ mc.stepper_attached /\ InitStepper
  \/ AtRest /\ MoveTo
  \/ AtRest /\ StartVelocity
  \/ Underway /\ Stop
  \/ Underway /\ SetAcceleration
  \/ isMoving(mc) /\ DriverStep
  \/ TickPeriod

\* The motion task is periodic: its tick() is called again and again.
SpecStop == InitStop /\ [][NextStop]_vars /\ WF_vars(TickPeriod)

\* ---------------------------------------------------- fault latch (spec)
\* The controller source has no operation that enters or leaves FAULT; the
\* two below follow the specification: an external fault latched in Idle or
\* Holding stops the generator, zeroes the velocity and disables the driver;
\* clear_fault takes Fault to Idle.
latchFault(s) ==
  Sys(setState([s.mc EXCEPT !.current_velocity = 0, !.enabled = FALSE], "FAULT"),
      IF s.mc.driver_attached THEN DriverDisable(s.drv) ELSE s.drv,
      IF s.mc.stepper_attached THEN StepperStop(s.gen) ELSE s.gen, TRUE)

clearFault(s) == Sys(setState(s.mc, "IDLE"), s.drv, s.gen, TRUE)

LatchFault ==
  /\ mc.state \in {"IDLE", "HOLDING"}
  /\ Call("latchFault", 0, ZeroParams, latchFault(Cur))

ClearFault ==
  /\ mc.state = "FAULT"
  /\ Call("clearFault", 0, ZeroParams, clearFault(Cur))

NextFault ==
  \/ Next
  \/ LatchFault
  \/ ClearFault

SpecFault == Init /\ [][NextFault]_vars

\* ------------------------------------- tick() against emergencyStop()
\* The controller holds no lock, so the statements of tick() on the motion
\* task interleave with those of emergencyStop() on another task.  One step
\* is one statement of the source; the locals of tick() live in tk.
Begin(op, arg) == hist' = Record(op, arg, TRUE)

\* tick(): entry check
TickBegin == \E dt \in DtSet :
  /\ tk.pc = "idle"
  /\ es.pc # "returned"
  /\ Begin("tick", 0)
  /\ tk' = IF mc.state = "IDLE" \/ mc.state = "FAULT" THEN TkIdle
           ELSE [TkIdle EXCEPT !.pc = "upd", !.dt = dt]
  /\ es' = [es EXCEPT !.overlap = @ \/ es.pc # "idle"]
  /\ UNCHANGED <<mc, drv, gen, Aside>>

\* updateVelocity(): dt check, delta_v and the switch on state_
TickUpdDispatch ==
  /\ tk.pc = "upd"
  /\ tk' = IF tk.dt = 0 THEN [tk EXCEPT !.pc = "apply"]
           ELSE [tk EXCEPT !.delta_v = (activeAccel(mc) * tk.dt) \div 1000000,
                           !.pc = CASE mc.state = "ACCELERATING" -> "upd_acc"
                                    [] mc.state = "DECELERATING" -> "upd_dec"
                                    [] mc.state = "CRUISING" -> "upd_cru"
                                    [] OTHER -> "clamp"]
  /\ UNCHANGED <<mc, drv, gen, hist, es, Aside>>

\* updateVelocity(): the body of the case taken
TickUpdCase ==
  /\ tk.pc \in {"upd_acc", "upd_dec", "upd_cru"}
  /\ LET cv   == mc.current_velocity
         tv   == mc.target_velocity
         minv == mc.config.min_velocity
         v == CASE tk.pc = "upd_acc" ->
                     IF cv < tv
                     THEN (IF cv + tk.delta_v > tv THEN tv ELSE cv + tk.delta_v)
                     ELSE cv
                [] tk.pc = "upd_dec" ->
                     IF cv > minv
                     THEN (IF tk.delta_v < cv - minv THEN cv - tk.delta_v ELSE minv)
                     ELSE cv
                [] OTHER -> tv
     IN mc' = [mc EXCEPT !.current_velocity = v]
  /\ tk' = [tk EXCEPT !.pc = "clamp"]
  /\ UNCHANGED <<drv, gen, hist, es, Aside>>

\* updateVelocity(): "Clamp to valid range"
TickUpdClamp ==
  /\ tk.pc = "clamp"
  /\ mc' = IF mc.current_velocity < mc.config.min_velocity /\ isMoving(mc)
           THEN [mc EXCEPT !.current_velocity = mc.config.min_velocity] ELSE mc
  /\ tk' = [tk EXCEPT !.pc = "apply"]
  /\ UNCHANGED <<drv, gen, hist, es, Aside>>

TickApply ==
  /\ tk.pc = "apply"
  /\ gen' = applyVelocity(mc, gen)
  /\ tk' = [tk EXCEPT !.pc = "pos"]
  /\ UNCHANGED <<mc, drv, hist, es, Aside>>

TickReadPosition ==
  /\ tk.pc = "pos"
  /\ mc' = readPosition(mc, drv)
  /\ tk' = [tk EXCEPT !.pc = "chk"]
  /\ UNCHANGED <<drv, gen, hist, es, Aside>>

\* checkTransitions(): abs_distance and the switch on state_
TickChkDispatch ==
  /\ tk.pc = "chk"
  /\ tk' = IF mc.state \in {"ACCELERATING", "CRUISING", "DECELERATING"}
           THEN [tk EXCEPT !.abs_distance = Abs(mc.target_position - mc.current_position),
                           !.pc = CASE mc.state = "ACCELERATING" -> "chk_acc"
                                    [] mc.state = "CRUISING" -> "chk_decel_due"
                                    [] OTHER -> "chk_dec"]
           ELSE TkIdle
  /\ UNCHANGED <<mc, drv, gen, hist, es, Aside>>

\* case ACCELERATING, first if: "Reached cruise velocity"
TickChkCruise ==
  /\ tk.pc = "chk_acc"
  /\ mc' = IF mc.current_velocity >= mc.target_velocity
           THEN setState(mc, "CRUISING") ELSE mc
  /\ tk' = [tk EXCEPT !.pc = "chk_decel_due"]
  /\ UNCHANGED <<drv, gen, hist, es, Aside>>

\* cases ACCELERATING and CRUISING: "Check if need to start decelerating"
TickChkDecelDue ==
  /\ tk.pc = "chk_decel_due"
  /\ mc' = IF mc.active_params.move_type # "VELOCITY"
              /\ tk.abs_distance <= decelDistance(mc)
           THEN setState(mc, "DECELERATING") ELSE mc
  /\ tk' = TkIdle
  /\ UNCHANGED <<drv, gen, hist, es, Aside>>

\* case DECELERATING
TickChkStop ==
  /\ tk.pc = "chk_dec"
  /\ LET stopped == IF mc.stepper_attached THEN StepperStop(gen) ELSE gen
     IN IF tk.abs_distance <= mc.config.position_tolerance
        THEN /\ mc' = setState([mc EXCEPT !.current_velocity = 0], "HOLDING")
             /\ gen' = stopped
        ELSE IF mc.current_velocity <= mc.config.min_velocity
        THEN /\ mc' = setState([mc EXCEPT !.current_velocity = 0], "IDLE")
             /\ gen' = stopped
        ELSE UNCHANGED <<mc, gen>>
  /\ tk' = TkIdle
  /\ UNCHANGED <<drv, hist, es, Aside>>

\* emergencyStop(): stepper_->stop()
EStopBegin ==
  /\ es.pc = "idle"
  /\ Begin("emergencyStop", 0)
  /\ gen' = IF mc.stepper_attached THEN StepperStop(gen) ELSE gen
  /\ es' = [pc |-> "zero_velocity", overlap |-> tk.pc # "idle"]
  /\ UNCHANGED <<mc, drv, tk, Aside>>

\* emergencyStop(): current_velocity_ = 0
EStopZeroVelocity ==
  /\ es.pc = "zero_velocity"
  /\ mc' = [mc EXCEPT !.current_velocity = 0]
  /\ es' = [es EXCEPT !.pc = "set_idle"]
  /\ UNCHANGED <<drv, gen, hist, tk, Aside>>

\* emergencyStop(): setState(IDLE) and return
EStopSetIdle ==
  /\ es.pc = "set_idle"
  /\ mc' = setState(mc, "IDLE")
  /\ es' = [es EXCEPT !.pc = "returned"]
  /\ UNCHANGED <<drv, gen, hist, tk, Aside>>

\* both calls are over; the tasks go on
Rejoin ==
  /\ es.pc = "returned"
  /\ tk.pc = "idle"
  /\ es' = EsIdle
  /\ UNCHANGED <<mc, drv, gen, hist, tk, Aside>>

Quiet == tk.pc = "idle" /\ es.pc = "idle"

NextConc ==
  \/ Quiet /\ AttachDriver
  \/ Quiet /\ AttachStepper
  \/ Quiet /\ InitStepper
  \/ Quiet /\ DriverStep
  \/ Quiet /\ MoveTo
  \/ Quiet /\ StartVelocity
  \/ TickBegin
  \/ TickUpdDispatch
  \/ TickUpdCase
  \/ TickUpdClamp
  \/ TickApply
  \/ TickReadPosition
  \/ TickChkDispatch
  \/ TickChkCruise
  \/ TickChkDecelDue
  \/ TickChkStop
  \/ EStopBegin
  \/ EStopZeroVelocity
  \/ EStopSetIdle
  \/ Rejoin

SpecConc == Init /\ [][NextConc]_vars

TypeOK ==
  /\ mc.state \in MotionStates
  /\ mc.current_position \in PosRange
  /\ mc.current_velocity \in 0..(MaxVel + 4)
  /\ gen.state \in {"IDLE", "RUNNING"}

\* ----------------------------------------------------- byte stuffing
COBS_MAX_INPUT_SIZE == 250
MSG_MAX_PAYLOAD_SIZE == 250

\* Longest byte sequence enumerated in full.
MaxLen == 3

\* A position of an output buffer that no statement has written.
Unwritten == 0 - 1

\* output[idx] = b; the buffer is kept as the sequence of its leading bytes.
Poke(output, idx, b) ==
  IF idx < Len(output) THEN [output EXCEPT ![idx + 1] = b]
  ELSE output \o [i \in 1..(idx - Len(output)) |-> Unwritten] \o <<b>>

\* an encoder that copies the delimiter like any other byte
EncodeStep_CopiesDelimiter(input, st) ==
  [read_idx |-> st.read_idx + 1, write_idx |-> st.write_idx + 1,
   code_idx |-> st.code_idx, code |-> (st.code + 1) % 255,
   output |-> Poke(st.output, st.write_idx, input[st.read_idx + 1])]

\* One pass of the while loop of cobs_encode(); code is a uint8_t.
EncodeStep(input, st) ==
  LET b == input[st.read_idx + 1] IN
  IF b = 0
  THEN [read_idx |-> st.read_idx + 1, write_idx |-> st.write_idx + 1,
        code_idx |-> st.write_idx, code |-> 1,
        output |-> Poke(st.output, st.code_idx, st.code)]
  ELSE
    LET copied == Poke(st.output, st.write_idx, b)
        code == (st.code + 1) % 256
    IN IF code = 255
       THEN [read_idx |-> st.read_idx + 1, write_idx |-> st.write_idx + 2,
             code_idx |-> st.write_idx + 1, code |-> 1,
             output |-> Poke(copied, st.code_idx, code)]
       ELSE [read_idx |-> st.read_idx + 1, write_idx |-> st.write_idx + 1,
             code_idx |-> st.code_idx, code |-> code, output |-> copied]

\* while (read_idx < input_len), at most n passes
RECURSIVE EncodeLoop(_, _, _)
EncodeLoop(input, n, st) ==
  IF n = 0 \/ st.read_idx >= Len(input) THEN st
  ELSE IF n = 1 THEN EncodeStep(input, st)
  ELSE EncodeLoop(input, n - n \div 2, EncodeLoop(input, n \div 2, st))

\* an encoder without the size check
cobs_encode_NoLimit(input) ==
  LET st == EncodeLoop(input, Len(input),
              [read_idx |-> 0, write_idx |-> 1, code_idx |-> 0, code |-> 1,
               output |-> <<>>])
  IN [len |-> st.write_idx, out |-> Poke(st.output, st.code_idx, st.code)]

\* cobs_encode(input, Len(input), output): the length returned and the bytes
\* written to output.
cobs_encode(input) ==
  IF Len(input) = 0 THEN NoBuffer
  ELSE IF Len(input) > COBS_MAX_INPUT_SIZE THEN NoBuffer
  ELSE
    LET st == EncodeLoop(input, Len(input),
                [read_idx |-> 0, write_idx |-> 1, code_idx |-> 0, code |-> 1,
                 output |-> <<>>])
    IN [len |-> st.write_idx, out |-> Poke(st.output, st.code_idx, st.code)]

\* a decoder that puts the delimiter back after the last block too
DecodeStep_DelimiterAtEnd(input, st) ==
  LET code == input[st.read_idx + 1]
      read_idx == st.read_idx + code
  IN IF code = 0 \/ read_idx > Len(input) THEN [st EXCEPT !.failed = TRUE]
     ELSE [read_idx |-> read_idx, failed |-> FALSE,
           output |-> Append(st.output \o SubSeq(input, st.read_idx + 2, read_idx), 0)]

\* One pass of the while loop of cobs_decode(); the inner for loop copies
\* code - 1 bytes and returns 0 where the input ends first.
DecodeStep(input, st) ==
  LET code == input[st.read_idx + 1]
      first == st.read_idx + 2
      avail == Len(input) - (st.read_idx + 1)
  IN IF code = 0 THEN [st EXCEPT !.failed = TRUE]
     ELSE IF avail < code - 1
     THEN [read_idx |-> Len(input), failed |-> TRUE,
           output |-> st.output \o SubSeq(input, first, Len(input))]
     ELSE
       LET read_idx == st.read_idx + code
           copied == st.output \o SubSeq(input, first, read_idx)
       IN [read_idx |-> read_idx, failed |-> FALSE,
           output |-> IF code < 255 /\ read_idx < Len(input)
                      THEN Append(copied, 0) ELSE copied]

\* while (read_idx < input_len), at most n passes
RECURSIVE DecodeLoop(_, _, _)
DecodeLoop(input, n, st) ==
  IF n = 0 \/ st.failed \/ st.read_idx >= Len(input) THEN st
  ELSE IF n = 1 THEN DecodeStep(input, st)
  ELSE DecodeLoop(input, n - n \div 2, DecodeLoop(input, n \div 2, st))

\* cobs_decode(input, Len(input), output)
cobs_decode(input) ==
  IF Len(input) = 0 THEN NoBuffer
  ELSE
    LET st == DecodeLoop(input, Len(input),
                [read_idx |-> 0, failed |-> FALSE, output |-> <<>>])
    IN [len |-> IF st.failed THEN 0 ELSE Len(st.output), out |-> st.output]

\* The bytes a call returned: the first len bytes of its output buffer.
Returned(buf) == SubSeq(buf.out, 1, buf.len)

\* Wire form of a frame before stuffing: message_id, length, payload and the
\* CRC low byte first.
Serialize(f) ==
  <<f.message_id, Len(f.payload)>> \o f.payload \o <<f.crc % 256, f.crc \div 256>>

\* The frame read back from its unstuffed wire form.
Parse(bytes) ==
  [message_id |-> bytes[1],
   payload |-> SubSeq(bytes, 3, 2 + bytes[2]),
   crc |-> bytes[Len(bytes) - 1] + 256 * bytes[Len(bytes)]]

\* Inputs: every sequence of up to MaxLen bytes over a few byte values, and
\* long ones around the limits of the encoder, of the frame and of a block.
ByteValues == {0, 1, 2, 3, 255}
ShortInputs == UNION { [1..n -> ByteValues] : n \in 0..MaxLen }
Run(n, b) == [i \in 1..n |-> b]
LongLens ==
  {COBS_MAX_INPUT_SIZE - 4, COBS_MAX_INPUT_SIZE - 3, COBS_MAX_INPUT_SIZE,
   COBS_MAX_INPUT_SIZE + 1, COBS_MAX_INPUT_SIZE + 5}
LongInputs ==
  UNION { {Run(n, 1), Run(n, 0), <<0>> \o Run(n - 1, 7), Run(n - 1, 7) \o <<0>>,
           <<255>> \o Run(n - 1, 9)} : n \in LongLens }
ByteSeqs == ShortInputs \cup LongInputs
MessageIds == {0, 16}
Crcs == {0, 7439}

\* encode(x)
CobsEncode ==
  /\ cobs.op = "none"
  /\ cobs' = [cobs EXCEPT !.op = "encode", !.enc = cobs_encode(cobs.input)]
  /\ UNCHANGED <<Motion, Planner, Smooth, Pulse>>

\* decode(x), x taken as bytes from the link
CobsDecode ==
  /\ cobs.op = "none"
  /\ cobs' = [cobs EXCEPT !.op = "decode", !.dec = cobs_decode(cobs.input)]
  /\ UNCHANGED <<Motion, Planner, Smooth, Pulse>>

\* decode(encode(x))
CobsRoundTrip ==
  /\ cobs.op = "encode"
  /\ cobs' = [cobs EXCEPT !.op = "roundtrip",
                          !.dec = cobs_decode(Returned(cobs.enc))]
  /\ UNCHANGED <<Motion, Planner, Smooth, Pulse>>

\* a frame with payload x is serialized and stuffed
FrameEncode == \E id \in MessageIds, crc \in Crcs :
  /\ cobs.op = "none"
  /\ Len(cobs.input) <= MSG_MAX_PAYLOAD_SIZE
  /\ LET f == [message_id |-> id, payload |-> cobs.input, crc |-> crc]
     IN cobs' = [cobs EXCEPT !.op = "frame", !.frame = f,
                             !.enc = cobs_encode(Serialize(f))]
  /\ UNCHANGED <<Motion, Planner, Smooth, Pulse>>

\* what went on the wire is unstuffed
FrameDecode ==
  /\ cobs.op = "frame"
  /\ cobs.enc.len # 0
  /\ cobs' = [cobs EXCEPT !.op = "unframe",
                          !.dec = cobs_decode(Returned(cobs.enc))]
  /\ UNCHANGED <<Motion, Planner, Smooth, Pulse>>

InitCobs ==
  /\ InitMotion
  /\ \E x \in ByteSeqs : cobs = CobsNew(x)
  /\ InitPlanner(ZeroTrajectoryParams)
  /\ InitSmooth(ZeroSCurveParams)
  /\ InitPulse

NextCobs ==
  \/ CobsEncode
  \/ CobsDecode
  \/ CobsRoundTrip
  \/ FrameEncode
  \/ FrameDecode

SpecCobs == InitCobs /\ [][NextCobs]_vars

\* ------------------------------------------------ trapezoidal trajectory
\* Longest move, in steps, and highest velocity, in steps per second, planned.
MaxDist == 4
MaxSpeed == 3

TrajectoryPhases == {"IDLE", "ACCEL", "CRUISE", "DECEL", "COMPLETE"}

\* Parameters handed to plan().  A start or end velocity above every peak is
\* among them; deceleration 0 stands for "as the acceleration".
TrajectoryParamSet ==
  [distance : (0 - MaxDist)..MaxDist, max_velocity : 0..MaxSpeed,
   acceleration : 0..2, deceleration : 0..1,
   start_velocity : {0, MaxSpeed + 1}, end_velocity : {0, MaxSpeed + 1}]

\* static_cast<uint32_t>(sqrt(x)): the whole part of the root, which is also
\* the whole part of the root of the whole part of x
ISqrt(x) == CHOOSE r \in 0..x : r * r <= x /\ (r + 1) * (r + 1) > x

\* computeTrapezoidal(); the values stay far below the width of the fields
computeTrapezoidal(t) ==
  LET v == t.params.max_velocity
      a == t.params.acceleration
      d == t.params.deceleration
      accel_distance == (v * v) \div (2 * a)
      accel_time_us == (v * 1000000) \div a
      decel_distance == (v * v) \div (2 * d)
      decel_time_us == (v * 1000000) \div d
      cruise_distance == t.params.distance - accel_distance - decel_distance
      cruise_time_us == IF v > 0 THEN (cruise_distance * 1000000) \div v ELSE 0
  IN [t EXCEPT !.timing =
        [accel_time_us |-> accel_time_us, cruise_time_us |-> cruise_time_us,
         decel_time_us |-> decel_time_us,
         total_time_us |-> accel_time_us + cruise_time_us + decel_time_us,
         accel_distance |-> accel_distance, cruise_distance |-> cruise_distance,
         decel_distance |-> decel_distance, peak_velocity |-> v,
         is_triangle |-> FALSE]]

\* computeTriangular()
computeTriangular(t) ==
  LET dist == t.params.distance
      a == t.params.acceleration
      d == t.params.deceleration
      root == ISqrt((2 * dist * a * d) \div (a + d))
      v_peak == IF root > t.params.max_velocity THEN t.params.max_velocity ELSE root
      accel_distance == (v_peak * v_peak) \div (2 * a)
      accel_time_us == (v_peak * 1000000) \div a
      decel_time_us == (v_peak * 1000000) \div d
  IN [t EXCEPT !.timing =
        [accel_time_us |-> accel_time_us, cruise_time_us |-> 0,
         decel_time_us |-> decel_time_us,
         total_time_us |-> accel_time_us + decel_time_us,
         accel_distance |-> accel_distance, cruise_distance |-> 0,
         decel_distance |-> dist - accel_distance, peak_velocity |-> v_peak,
         is_triangle |-> TRUE]]

\* What a call on the trajectory gives back: the object, the bool returned
\* and the TrajectoryState returned (progress, a float, is left out).
Out(t, ret, state) == [traj |-> t, ret |-> ret, state |-> state]

\* A test that takes equality for the triangle.
CanReachMaxVelocity_Strict(p) ==
  LET v == p.max_velocity
  IN (v * v) \div (2 * p.acceleration) + (v * v) \div (2 * p.deceleration)
       < p.distance

\* A test that never finds the triangle.
CanReachMaxVelocity_Always(p) == p.distance >= 0

\* "Calculate if we can reach max velocity", on the stored parameters: the
\* quotients are uint64_t quotients.
CanReachMaxVelocity(p) ==
  LET v == p.max_velocity
      accel_dist == (v * v) \div (2 * p.acceleration)
      decel_dist == (v * v) \div (2 * p.deceleration)
  IN accel_dist + decel_dist <= p.distance

\* plan(params)
plan(t, params) ==
  IF params.max_velocity = 0 \/ params.acceleration = 0
  THEN Out(t, FALSE, NoTrajectoryState)
  ELSE
    LET deceleration == IF params.deceleration = 0 THEN params.acceleration
                        ELSE params.deceleration
        distance == IF params.distance >= 0 THEN params.distance
                    ELSE 0 - params.distance
        stored == [t EXCEPT !.params = [params EXCEPT !.deceleration = deceleration,
                                                      !.distance = distance],
                            !.direction = IF params.distance >= 0 THEN 1 ELSE 0 - 1]
        timed == IF CanReachMaxVelocity(stored.params)
                 THEN computeTrapezoidal(stored) ELSE computeTriangular(stored)
    IN Out([timed EXCEPT !.planned = TRUE, !.started = FALSE, !.phase = "IDLE"],
           TRUE, NoTrajectoryState)

\* start()
start(t) ==
  IF ~t.planned THEN Out(t, TRUE, NoTrajectoryState)
  ELSE Out([t EXCEPT !.elapsed_us = 0, !.current_position = 0,
                     !.current_velocity = t.params.start_velocity,
                     !.phase = "ACCEL", !.started = TRUE],
           TRUE, NoTrajectoryState)

\* updateAccel(dt_us), elapsed_us_ already advanced
updateAccel(t, dt_us) ==
  LET delta_v == (t.params.acceleration * dt_us) \div 1000000
      raised == t.current_velocity + delta_v
      velocity == IF raised >= t.timing.peak_velocity THEN t.timing.peak_velocity
                  ELSE raised
      delta_pos == (velocity * dt_us) \div 1000000
  IN [t EXCEPT !.current_velocity = velocity,
               !.current_position = @ + delta_pos,
               !.phase = IF t.elapsed_us >= t.timing.accel_time_us
                         THEN (IF t.timing.is_triangle THEN "DECEL" ELSE "CRUISE")
                         ELSE @]

\* updateCruise(dt_us)
updateCruise(t, dt_us) ==
  LET velocity == t.timing.peak_velocity
      delta_pos == (velocity * dt_us) \div 1000000
  IN [t EXCEPT !.current_velocity = velocity,
               !.current_position = @ + delta_pos,
               !.phase = IF t.elapsed_us >=
                              t.timing.accel_time_us + t.timing.cruise_time_us
                         THEN "DECEL" ELSE @]

\* updateDecel(dt_us) that completes on the position alone
updateDecel_PositionOnly(t, dt_us) ==
  LET delta_v == (t.params.deceleration * dt_us) \div 1000000
      velocity == IF delta_v < t.current_velocity THEN t.current_velocity - delta_v
                  ELSE t.params.end_velocity
      delta_pos == (velocity * dt_us) \div 1000000
      position == t.current_position + delta_pos
  IN IF position >= t.params.distance
     THEN [t EXCEPT !.current_position = t.params.distance,
                    !.current_velocity = t.params.end_velocity,
                    !.phase = "COMPLETE"]
     ELSE [t EXCEPT !.current_position = position, !.current_velocity = velocity]

\* updateDecel(dt_us)
updateDecel(t, dt_us) ==
  LET delta_v == (t.params.deceleration * dt_us) \div 1000000
      velocity == IF delta_v < t.current_velocity THEN t.current_velocity - delta_v
                  ELSE t.params.end_velocity
      delta_pos == (velocity * dt_us) \div 1000000
      position == t.current_position + delta_pos
  IN IF position >= t.params.distance \/ t.elapsed_us >= t.timing.total_time_us
     THEN [t EXCEPT !.current_position = t.params.distance,
                    !.current_velocity = t.params.end_velocity,
                    !.phase = "COMPLETE"]
     ELSE [t EXCEPT !.current_position = position, !.current_velocity = velocity]

\* update(dt_us)
update(t, dt_us) ==
  IF ~t.started \/ t.phase = "IDLE" \/ t.phase = "COMPLETE"
  THEN Out(t, TRUE,
           [phase |-> t.phase, elapsed_us |-> t.elapsed_us,
            position |-> t.current_position, velocity |-> 0,
            remaining |-> t.params.distance - t.current_position])
  ELSE
    LET timed == [t EXCEPT !.elapsed_us = @ + dt_us]
        u == CASE t.phase = "ACCEL" -> updateAccel(timed, dt_us)
               [] t.phase = "CRUISE" -> updateCruise(timed, dt_us)
               [] t.phase = "DECEL" -> updateDecel(timed, dt_us)
    IN Out(u, TRUE,
           [phase |-> u.phase, elapsed_us |-> u.elapsed_us,
            position |-> u.current_position * u.direction,
            velocity |-> u.current_velocity,
            remaining |-> (u.params.distance - u.current_position) * u.direction])

\* reset()
reset(t) ==
  Out([t EXCEPT !.phase = "IDLE", !.elapsed_us = 0, !.current_position = 0,
                !.current_velocity = 0, !.planned = FALSE, !.started = FALSE],
      TRUE, NoTrajectoryState)

\* getCurrentPosition()
getCurrentPosition(t) == t.current_position * t.direction

\* A call on the trajectory.
TrajectoryCall(op, arg, r) ==
  /\ traj' = r.traj
  /\ tcall' = [op |-> op, arg |-> arg, ret |-> r.ret, state |-> r.state]
  /\ UNCHANGED <<Motion, cobs, tmove, Smooth, Pulse>>

\* plan() with the parameters of the move
Plan ==
  /\ tmove \in TrajectoryParamSet \ {ZeroTrajectoryParams}
  /\ TrajectoryCall("plan", tmove, plan(traj, tmove))

\* plan() with a parameter of the move zeroed
PlanInvalid == \E zeroed \in {"max_velocity", "acceleration"} :
  /\ tmove \in TrajectoryParamSet \ {ZeroTrajectoryParams}
  /\ LET params == [tmove EXCEPT ![zeroed] = 0]
     IN TrajectoryCall("plan", params, plan(traj, params))

Start ==
  /\ traj.planned
  /\ TrajectoryCall("start", 0, start(traj))

Update == \E dt_us \in DtSet :
  /\ traj.started
  /\ TrajectoryCall("update", dt_us, update(traj, dt_us))

Reset ==
  /\ traj.planned
  /\ TrajectoryCall("reset", 0, reset(traj))

InitTrajectory ==
  /\ InitMotion
  /\ cobs = CobsNew(<<>>)
  /\ \E p \in TrajectoryParamSet : InitPlanner(p)
  /\ InitSmooth(ZeroSCurveParams)
  /\ InitPulse

NextTraj ==
  \/ Plan
  \/ PlanInvalid
  \/ Start
  \/ Update
  \/ Reset

SpecTraj == InitTrajectory /\ [][NextTraj]_vars

\* ------------------------------------------------- 64-bit arithmetic
\* The S-curve planner forms uint64_t products of times in microseconds,
\* which pass 2^31.  A number is kept as its digits to the base 10000, the
\* lowest first, and <<>> is zero.
RECURSIVE Big(_)
Big(n) == IF n = 0 THEN <<>> ELSE <<n % 10000>> \o Big(n \div 10000)

RECURSIVE Value(_)
Value(x) == IF x = <<>> THEN 0 ELSE x[1] + 10000 * Value(Tail(x))

RECURSIVE Trim(_)
Trim(x) ==
  IF x # <<>> /\ x[Len(x)] = 0 THEN Trim(SubSeq(x, 1, Len(x) - 1)) ELSE x

\* x * m + c for a factor m below 10^5
RECURSIVE BigScale(_, _, _)
BigScale(x, m, c) ==
  IF x = <<>> THEN Big(c)
  ELSE <<(x[1] * m + c) % 10000>>
         \o BigScale(Tail(x), m, (x[1] * m + c) \div 10000)

RECURSIVE BigAdd(_, _, _)
BigAdd(x, y, c) ==
  IF x = <<>> /\ y = <<>> THEN Big(c)
  ELSE LET a == IF x = <<>> THEN 0 ELSE x[1]
           b == IF y = <<>> THEN 0 ELSE y[1]
       IN <<(a + b + c) % 10000>>
            \o BigAdd(IF x = <<>> THEN x ELSE Tail(x),
                      IF y = <<>> THEN y ELSE Tail(y), (a + b + c) \div 10000)

\* x - y - c for x >= y + c
RECURSIVE BigSub(_, _, _)
BigSub(x, y, c) ==
  IF x = <<>> THEN <<>>
  ELSE LET b == (IF y = <<>> THEN 0 ELSE y[1]) + c
       IN <<(x[1] + 10000 - b) % 10000>>
            \o BigSub(Tail(x), IF y = <<>> THEN y ELSE Tail(y),
                      IF x[1] < b THEN 1 ELSE 0)

RECURSIVE BigMul(_, _)
BigMul(x, y) ==
  IF y = <<>> THEN <<>>
  ELSE BigAdd(BigScale(x, y[1], 0), <<0>> \o BigMul(x, Tail(y)), 0)

\* quotient and remainder of x by a divisor m below 10^5
RECURSIVE BigDivRem(_, _)
BigDivRem(x, m) ==
  IF x = <<>> THEN [q |-> <<>>, r |-> 0]
  ELSE LET hi == BigDivRem(Tail(x), m)
           cur == hi.r * 10000 + x[1]
       IN [q |-> <<cur \div m>> \o hi.q, r |-> cur % m]

\* x / (ds[1] * ... * ds[n]), rounded down
RECURSIVE BigDiv(_, _)
BigDiv(x, ds) ==
  IF ds = <<>> THEN Trim(x) ELSE BigDiv(BigDivRem(x, ds[1]).q, Tail(ds))

RECURSIVE BigProduct(_)
BigProduct(fs) ==
  IF fs = <<>> THEN <<1>> ELSE BigMul(Big(fs[1]), BigProduct(Tail(fs)))

\* x modulo 2^64, what a uint64_t holds of x: x itself when it is below
\* 1844 * 10^16, which is below 2^64
U64(x) ==
  LET word == <<65536, 65536, 65536, 65536>>
      t == Trim(x)
  IN IF Len(t) < 5 \/ (Len(t) = 5 /\ t[5] < 1844) THEN t
     ELSE Trim(BigSub(t, Trim(BigMul(BigDiv(t, word), BigProduct(word))), 0))

\* The uint64_t expression (fs[1] * ... * fs[n]) / (the constant ds[1] * ... ),
\* the constant itself below 2^64; the quotient is small again.
MulDiv(fs, ds) == Value(BigDiv(U64(BigProduct(fs)), ds))

\* The constants 10^6, 2 * 10^12 and 6 * 10^18 of the source as divisors.
Mega == <<10000, 100>>
TwoTera == <<10000, 10000, 10000, 2>>
SixExa == <<10000, 10000, 10000, 10000, 100, 6>>

\* ------------------------------------------------------ S-curve trajectory
\* An S-curve is followed for MaxSeconds seconds and up to twice the longest
\* distance: the profile planned for a move too short for any velocity runs
\* at 100 steps per second for minutes.
MaxSeconds == 12

SCurvePhases ==
  {"IDLE", "JERK_ACCEL_RISE", "CONST_ACCEL", "JERK_ACCEL_FALL", "CRUISE",
   "JERK_DECEL_RISE", "CONST_DECEL", "JERK_DECEL_FALL", "COMPLETE"}

\* Parameters handed to SCurveTrajectory::plan().
SCurveParamSet ==
  [distance : (0 - MaxDist)..MaxDist, max_velocity : 0..MaxSpeed,
   max_acceleration : 0..2, max_jerk : 0..2]

\* The largest h in lo..hi with h * h * j <= v * 10^6, that is with h * h at
\* most the whole part of v * 10^6 / j.
RECURSIVE RootThousands(_, _, _, _)
RootThousands(v, j, lo, hi) ==
  IF lo >= hi THEN lo
  ELSE LET h == (lo + hi + 1) \div 2
       IN IF h * h <= (v * 1000000) \div j THEN RootThousands(v, j, h, hi)
          ELSE RootThousands(v, j, lo, h - 1)

\* The largest l in lo..hi with (2000 * h * l + l * l) * j <= 1000 * left,
\* compared on the thousands and on what is left of them.
RECURSIVE RootUnits(_, _, _, _, _)
RootUnits(h, j, left, lo, hi) ==
  IF lo >= hi THEN lo
  ELSE LET l == (lo + hi + 1) \div 2
           thousands == 2 * h * l * j + (l * l * j) \div 1000
       IN IF thousands < left \/ (thousands = left /\ (l * l * j) % 1000 = 0)
          THEN RootUnits(h, j, left, l, hi) ELSE RootUnits(h, j, left, lo, l - 1)

\* static_cast<uint64_t>(sqrt(double(v) / j) * 1000000.0): the largest r with
\* r * r * j <= v * 10^12, as r = 1000 * h + l.
SqrtMicro(v, j) ==
  LET h == RootThousands(v, j, 0, IF v > 46 THEN 46340 ELSE 1000 * v)
  IN 1000 * h + RootUnits(h, j, 1000 * (v * 1000000 - h * h * j), 0, 999)

\* The jerk phase time for peak velocity v: the short-move branch
\* "if (v <= 2 * v_jerk)" takes the square root, the other a / j.
JerkTime(p, v) ==
  IF v <= 2 * ((p.max_acceleration * p.max_acceleration) \div (2 * p.max_jerk))
  THEN SqrtMicro(v, p.max_jerk)
  ELSE (p.max_acceleration * 1000000) \div p.max_jerk

\* The constant-acceleration time computeReducedProfile() stores for the
\* velocity v it settled on, in both branches.
ConstTime(p, v) ==
  LET v_jerk == (p.max_acceleration * p.max_acceleration) \div (2 * p.max_jerk)
  IN IF v <= 2 * v_jerk THEN 0
     ELSE ((v - 2 * v_jerk) * 1000000) \div p.max_acceleration

\* total_dist of one pass of the search of computeReducedProfile(), from
\* the times t_j and t_a of the pass.
ReducedTravel(p, t_j, t_a) ==
  LET j == p.max_jerk
      a == p.max_acceleration
      d_j1 == MulDiv(<<j, t_j, t_j, t_j>>, SixExa)
      v_end_j1 == MulDiv(<<j, t_j, t_j>>, TwoTera)
      d_a == (v_end_j1 * t_a) \div 1000000 + MulDiv(<<a, t_a, t_a>>, TwoTera)
      v_end_a == v_end_j1 + (a * t_a) \div 1000000
      d_j2 == (v_end_a * t_j) \div 1000000
  IN 2 * (d_j1 + d_a + d_j2)

\* The distance of the accel and decel halves for peak velocity v_try, as
\* one pass of the search of computeReducedProfile() computes it.
ReducedDistance(p, v_try) ==
  LET a == p.max_acceleration
      short == v_try <= 2 * ((a * a) \div (2 * p.max_jerk))
      v_jerk == IF short THEN v_try \div 2 ELSE (a * a) \div (2 * p.max_jerk)
      v_const == IF v_try > 2 * v_jerk THEN v_try - 2 * v_jerk ELSE 0
  IN ReducedTravel(p, JerkTime(p, v_try),
                   IF v_const > 0 THEN (v_const * 1000000) \div a ELSE 0)

\* ReducedDistance for the velocities 1..v, which are all the search tries.
RECURSIVE ReducedDistances(_, _)
ReducedDistances(p, v) ==
  IF v = 0 THEN <<>>
  ELSE Append(ReducedDistances(p, v - 1), ReducedDistance(p, v))

\* The 32 passes of the search: for (iter ...) in computeReducedProfile(),
\* total_dist read from the sequence total
RECURSIVE SearchVelocity(_, _, _, _, _, _)
SearchVelocity(total, dist, iter, v_low, v_high, v_achieved) ==
  LET v_try == (v_low + v_high) \div 2
  IN IF iter = 32 \/ v_try = 0 THEN v_achieved
     ELSE IF total[v_try] <= dist
          THEN SearchVelocity(total, dist, iter + 1, v_try + 1, v_high, v_try)
          ELSE SearchVelocity(total, dist, iter + 1, v_low, v_try - 1, v_achieved)

\* The timing computeReducedProfile() stores for the velocity it settled on.
ReducedTiming(t, v_achieved, t_j, t_const) ==
  [t EXCEPT !.timing =
     [t_jerk_accel |-> t_j, t_const_accel |-> t_const, t_cruise |-> 0,
      t_jerk_decel |-> t_j, t_const_decel |-> t_const,
      total_time_us |-> 2 * t_j + t_const + 2 * t_j + t_const,
      v_achieved |-> v_achieved,
      a_achieved |-> IF v_achieved <= 2 * ((t.params.max_acceleration
                            * t.params.max_acceleration) \div (2 * t.params.max_jerk))
                     THEN (t.params.max_jerk * t_j) \div 1000000
                     ELSE t.params.max_acceleration,
      is_reduced |-> TRUE]]

\* computeReducedProfile(), the search done: "if (v_achieved == 0)
\* v_achieved = 100" and the final timing
ReducedFor(t, found) ==
  IF found = 0
  THEN ReducedTiming(t, 100, JerkTime(t.params, 100), ConstTime(t.params, 100))
  ELSE ReducedTiming(t, found, JerkTime(t.params, found),
                     ConstTime(t.params, found))

\* computeReducedProfile()
computeReducedProfile(t) ==
  ReducedFor(t, SearchVelocity(ReducedDistances(t.params, t.params.max_velocity),
                               t.params.distance, 0, 0, t.params.max_velocity, 0))

\* total_accel_dist of computeFullProfile()
FullTravel(p, t_j, t_a) ==
  LET j == p.max_jerk
      a == p.max_acceleration
      d_j1 == MulDiv(<<j, t_j, t_j, t_j>>, SixExa)
      v_end_j1 == MulDiv(<<j, t_j, t_j>>, TwoTera)
      d_a == (v_end_j1 * t_a) \div 1000000 + MulDiv(<<a, t_a, t_a>>, TwoTera)
      v_end_a == v_end_j1 + (a * t_a) \div 1000000
      d_j2 == (v_end_a * t_j) \div 1000000 + MulDiv(<<a, t_j, t_j>>, TwoTera)
                - MulDiv(<<j, t_j, t_j, t_j>>, SixExa)
  IN d_j1 + d_a + d_j2

\* computeFullProfile() from the cruise distance on
FullFor(t, t_j, t_a, cruise_dist) ==
  IF cruise_dist < 0 THEN computeReducedProfile(t)
  ELSE [t EXCEPT !.timing =
          [t_jerk_accel |-> t_j, t_const_accel |-> t_a,
           t_cruise |-> (cruise_dist * 1000000) \div t.params.max_velocity,
           t_jerk_decel |-> t_j, t_const_decel |-> t_a,
           total_time_us |-> 2 * t_j + t_a
               + (cruise_dist * 1000000) \div t.params.max_velocity + 2 * t_j + t_a,
           v_achieved |-> t.params.max_velocity,
           a_achieved |-> t.params.max_acceleration, is_reduced |-> FALSE]]

\* computeFullProfile(); the decel distance is the accel distance again
computeFullProfile(t) ==
  LET j == t.params.max_jerk
      a == t.params.max_acceleration
      t_j == (a * 1000000) \div j
      t_a == ((t.params.max_velocity - 2 * ((a * a) \div (2 * j))) * 1000000) \div a
  IN FullFor(t, t_j, t_a, t.params.distance - 2 * FullTravel(t.params, t_j, t_a))

\* What a call on the S-curve gives back: the object, the bool returned and
\* the SCurveState returned.
SOut(t, ret) == [scurve |-> t, ret |-> ret, state |-> SCurveStateOf(t)]

\* A plan() that stores the parameters before it looks at them.
SCurveRejected_Stored(t, params) == SOut([t EXCEPT !.params = params], FALSE)

\* plan(params), invalid parameters: return false
SCurveRejected(t, params) == SOut(t, FALSE)

\* plan(), the profile computed: the phase end times, planned_, started_
\* and phase_
SCurvePlanned(timed) ==
  LET tm == timed.timing
      j1 == tm.t_jerk_accel
      ea == j1 + tm.t_const_accel
      j2 == ea + tm.t_jerk_accel
      ec == j2 + tm.t_cruise
      j3 == ec + tm.t_jerk_decel
  IN SOut([timed EXCEPT !.t_end = [j1 |-> j1, a |-> ea, j2 |-> j2, c |-> ec,
                                   j3 |-> j3, d |-> j3 + tm.t_const_decel],
                        !.planned = TRUE, !.started = FALSE, !.phase = "IDLE"],
          TRUE)

\* plan(), the parameters valid: params_ with the distance made positive,
\* direction_
SCurveStored(t, params) ==
  [t EXCEPT !.params = [params EXCEPT !.distance = IF params.distance >= 0
                                                   THEN params.distance
                                                   ELSE 0 - params.distance],
            !.direction = IF params.distance >= 0 THEN 1 ELSE 0 - 1]

\* SCurveTrajectory::plan(params)
SCurvePlan(t, params) ==
  IF params.max_velocity = 0 \/ params.max_acceleration = 0
       \/ params.max_jerk = 0
  THEN SCurveRejected(t, params)
  ELSE IF 2 * ((params.max_acceleration * params.max_acceleration)
                 \div (2 * params.max_jerk)) >= params.max_velocity
       THEN SCurvePlanned(computeReducedProfile(SCurveStored(t, params)))
       ELSE SCurvePlanned(computeFullProfile(SCurveStored(t, params)))

\* SCurveTrajectory::start()
SCurveStart(t) ==
  IF ~t.planned THEN SOut(t, TRUE)
  ELSE SOut([t EXCEPT !.elapsed_us = 0, !.phase_elapsed_us = 0,
                      !.current_position = 0, !.current_velocity = 0,
                      !.current_acceleration = 0, !.started = TRUE,
                      !.phase = "JERK_ACCEL_RISE"], TRUE)

\* A rise that always goes on to the fall.
AfterRise_Skipping(t) == "JERK_ACCEL_FALL"

\* The phase after JERK_ACCEL_RISE
AfterRise(t) ==
  IF t.timing.t_const_accel > 0 THEN "CONST_ACCEL" ELSE "JERK_ACCEL_FALL"

\* checkPhaseTransition(), elapsed_us_ already advanced
checkPhaseTransition(t) ==
  LET next(to) == [t EXCEPT !.phase = to, !.phase_elapsed_us = 0]
  IN CASE t.phase = "JERK_ACCEL_RISE" /\ t.elapsed_us >= t.t_end.j1 ->
            [next(AfterRise(t))
               EXCEPT !.current_acceleration = t.timing.a_achieved]
       [] t.phase = "CONST_ACCEL" /\ t.elapsed_us >= t.t_end.a ->
            next("JERK_ACCEL_FALL")
       [] t.phase = "JERK_ACCEL_FALL" /\ t.elapsed_us >= t.t_end.j2 ->
            [next(IF t.timing.t_cruise > 0 THEN "CRUISE" ELSE "JERK_DECEL_RISE")
               EXCEPT !.current_acceleration = 0,
                      !.current_velocity = t.timing.v_achieved]
       [] t.phase = "CRUISE" /\ t.elapsed_us >= t.t_end.c ->
            next("JERK_DECEL_RISE")
       [] t.phase = "JERK_DECEL_RISE" /\ t.elapsed_us >= t.t_end.j3 ->
            [next(IF t.timing.t_const_decel > 0 THEN "CONST_DECEL"
                  ELSE "JERK_DECEL_FALL")
               EXCEPT !.current_acceleration = 0 - t.timing.a_achieved]
       [] t.phase = "CONST_DECEL" /\ t.elapsed_us >= t.t_end.d ->
            next("JERK_DECEL_FALL")
       [] t.phase = "JERK_DECEL_FALL" /\ t.elapsed_us >= t.timing.total_time_us ->
            [t EXCEPT !.phase = "COMPLETE", !.current_velocity = 0,
                      !.current_acceleration = 0,
                      !.current_position = t.params.distance]
       [] OTHER -> t

\* int64_t division, which rounds toward zero
Quot(x, y) == IF x >= 0 THEN x \div y ELSE 0 - ((0 - x) \div y)

\* The velocity and position step shared by the phase updates; clamped says
\* whether the velocity is held at zero from below.
Integrate(t, dt_us, clamped) ==
  LET dv == Quot(t.current_acceleration * dt_us, 1000000)
      velocity == IF clamped /\ dv < 0 /\ 0 - dv > t.current_velocity THEN 0
                  ELSE t.current_velocity + dv
  IN [t EXCEPT !.current_velocity = velocity,
               !.current_position = @ + Quot(velocity * dt_us, 1000000)]

\* updateJerkUp(dt_us, jerk)
updateJerkUp(t, dt_us, jerk) ==
  Integrate([t EXCEPT !.current_acceleration = @ + Quot(jerk * dt_us, 1000000)],
            dt_us, TRUE)

\* updateJerkDown(dt_us, jerk)
updateJerkDown(t, dt_us, jerk) ==
  Integrate([t EXCEPT !.current_acceleration = @ - Quot(jerk * dt_us, 1000000)],
            dt_us, TRUE)

\* The switch of update() on the phase after checkPhaseTransition();
\* updateConstAccel, updateCruise and updateConstDecel are the bare
\* integration step
updatePhase(c, dt_us) ==
  CASE c.phase \in {"JERK_ACCEL_RISE", "JERK_DECEL_FALL"} ->
         updateJerkUp(c, dt_us, c.params.max_jerk)
    [] c.phase \in {"JERK_ACCEL_FALL", "JERK_DECEL_RISE"} ->
         updateJerkDown(c, dt_us, c.params.max_jerk)
    [] c.phase = "CONST_ACCEL" -> Integrate(c, dt_us, FALSE)
    [] c.phase = "CONST_DECEL" -> Integrate(c, dt_us, TRUE)
    [] c.phase = "CRUISE" ->
         [c EXCEPT !.current_position =
                     @ + Quot(c.current_velocity * dt_us, 1000000)]
    [] OTHER -> c

\* SCurveTrajectory::update(dt_us)
SCurveUpdate(t, dt_us) ==
  IF ~t.started \/ t.phase = "IDLE" \/ t.phase = "COMPLETE" THEN SOut(t, TRUE)
  ELSE SOut(updatePhase(checkPhaseTransition(
                          [t EXCEPT !.elapsed_us = @ + dt_us,
                                    !.phase_elapsed_us = @ + dt_us]), dt_us),
            TRUE)

\* SCurveTrajectory::reset(): planned_ stays
SCurveReset(t) ==
  SOut([t EXCEPT !.phase = "IDLE", !.elapsed_us = 0, !.phase_elapsed_us = 0,
                 !.current_position = 0, !.current_velocity = 0,
                 !.current_acceleration = 0, !.started = FALSE], TRUE)

\* A call on the S-curve.
SCurveCall(op, arg, r) ==
  /\ scurve' = r.scurve
  /\ scall' = [op |-> op, arg |-> arg, ret |-> r.ret, state |-> r.state]
  /\ UNCHANGED <<Motion, cobs, Planner, smove, Pulse>>

\* plan() with the parameters of the move
SPlan ==
  /\ smove \in SCurveParamSet \ {ZeroSCurveParams}
  /\ ~scurve.started
  /\ SCurveCall("plan", smove, SCurvePlan(scurve, smove))

\* plan() with a parameter of the move zeroed
SPlanInvalid == \E zeroed \in {"max_velocity", "max_acceleration", "max_jerk"} :
  /\ smove \in SCurveParamSet \ {ZeroSCurveParams}
  /\ LET params == [smove EXCEPT ![zeroed] = 0]
     IN SCurveCall("plan", params, SCurvePlan(scurve, params))

SStart ==
  /\ scurve.planned
  /\ SCurveCall("start", 0, SCurveStart(scurve))

SUpdate == \E dt_us \in DtSet :
  /\ scurve.started
  /\ scurve.elapsed_us < MaxSeconds * 1000000
  /\ scurve.current_position <= 2 * MaxDist
  /\ SCurveCall("update", dt_us, SCurveUpdate(scurve, dt_us))

SReset ==
  /\ scurve.started
  /\ SCurveCall("reset", 0, SCurveReset(scurve))

InitSmoothMove ==
  /\ InitMotion
  /\ cobs = CobsNew(<<>>)
  /\ InitPlanner(ZeroTrajectoryParams)
  /\ \E p \in SCurveParamSet : InitSmooth(p)
  /\ InitPulse

NextSCurve ==
  \/ SPlan
  \/ SPlanInvalid
  \/ SStart
  \/ SUpdate
  \/ SReset

SpecSCurve == InitSmoothMove /\ [][NextSCurve]_vars

\* A caller of one of the two planners: the other stays as constructed, its
\* caller holding no move.
InitPlan == InitTrajectory \/ InitSmoothMove

NextPlan == NextTraj \/ NextSCurve

SpecPlan == InitPlan /\ [][NextPlan]_vars

\* ------------------------------------------------- a move run to its end
\* One planner is given its move, started, and updated with dt_us > 0;
\* nothing is planned, started or reset during the move.
PlanOnce == ~traj.planned /\ Plan

StartOnce == ~traj.started /\ Start

\* Periods of update(): 1 s and 2 s.
StrideSet == {1000000, 2000000}

\* Whether update() is called once more on a move with the given clock and
\* planned time: a move planned to last longer than MaxSeconds is not run,
\* and no move is run for longer than sixteen seconds past its planned
\* time, eight periods in each of which a phase ends.
Pending(elapsed_us, total_time_us) ==
  /\ total_time_us <= MaxSeconds * 1000000
  /\ elapsed_us < total_time_us + 16000000

UpdateAhead == \E dt_us \in StrideSet :
  /\ traj.started
  /\ Pending(traj.elapsed_us, traj.timing.total_time_us)
  /\ TrajectoryCall("update", dt_us, update(traj, dt_us))

SPlanOnce == ~scurve.planned /\ SPlan

SStartOnce == ~scurve.started /\ SStart

SUpdateAhead == \E dt_us \in StrideSet :
  /\ scurve.started
  /\ Pending(scurve.elapsed_us, scurve.timing.total_time_us)
  /\ SCurveCall("update", dt_us, SCurveUpdate(scurve, dt_us))

NextFinish ==
  \/ PlanOnce
  \/ StartOnce
  \/ UpdateAhead
  \/ SPlanOnce
  \/ SStartOnce
  \/ SUpdateAhead

\* The moves run to their end: for the trapezoid those from and to rest,
\* for the S-curve the longest in both directions, the shortest and none.
InitFinish ==
  \/ InitTrajectory /\ tmove.start_velocity = 0 /\ tmove.end_velocity = 0
  \/ InitSmoothMove /\ smove.distance \in {0 - MaxDist, 0, 1, MaxDist}

\* The caller of a started move goes on calling update().
SpecFinish ==
  /\ InitFinish /\ [][NextFinish]_vars
  /\ WF_vars(UpdateAhead) /\ WF_vars(SUpdateAhead)

\* ------------------------------------------------------ pulse generators
\* McpwmStepper and TimerStepper in the firmware build, given the same
\* calls.  The McpwmStepper methods start(), stop() and setFrequency() are
\* StepperStart, StepperStop and StepperSetFrequency above.
\* Most steps counted and largest target set.
MaxSteps == 2

\* TimerStepper::MAX_FREQUENCY
TIMER_MAX_FREQUENCY == 50000

\* Frequencies handed to setFrequency(): zero, the least, and each cap with
\* the value above it.
FrequencySet ==
  {0, MIN_FREQUENCY, TIMER_MAX_FREQUENCY, TIMER_MAX_FREQUENCY + 1,
   MAX_FREQUENCY, MAX_FREQUENCY + 1}

\* What a call on a generator gives back.
GenOut(g, ret) == [gen |-> g, ret |-> ret]

\* McpwmStepper::init(); ok says whether the pin and unit are valid and
\* mcpwm_init() returned ESP_OK
McpwmInit(g, ok) ==
  IF ok THEN GenOut(StepperInit(g), TRUE) ELSE GenOut(g, FALSE)

\* TimerStepper::init(); ok says whether the pin is valid and both
\* esp_timer_create() calls returned ESP_OK
TimerInit(g, ok) ==
  IF ok THEN GenOut([g EXCEPT !.initialized = TRUE], TRUE) ELSE GenOut(g, FALSE)

\* A start() that does not look at initialized_.
TimerStart_Unready(g, ok) ==
  IF g.frequency_hz = 0 \/ ~ok THEN GenOut(g, FALSE)
  ELSE GenOut([g EXCEPT !.state = "RUNNING", !.pulse_high = FALSE,
                        !.armed = TRUE], TRUE)

\* TimerStepper::start(); ok says whether esp_timer_start_periodic()
\* returned ESP_OK
TimerStart(g, ok) ==
  IF ~g.initialized \/ g.frequency_hz = 0 THEN GenOut(g, FALSE)
  ELSE IF ~ok THEN GenOut(g, FALSE)
  ELSE GenOut([g EXCEPT !.state = "RUNNING", !.pulse_high = FALSE,
                        !.armed = TRUE], TRUE)

\* TimerStepper::stop()
TimerStop(g) ==
  IF g.state = "IDLE" THEN g
  ELSE [g EXCEPT !.armed = FALSE, !.pulse_high = FALSE, !.state = "IDLE"]

\* A setFrequency() with the cap of the PWM generator.
TimerSetFrequency_PwmCap(g, hz) ==
  IF hz < MIN_FREQUENCY \/ hz > MAX_FREQUENCY THEN GenOut(g, FALSE)
  ELSE GenOut([g EXCEPT !.frequency_hz = hz], TRUE)

\* TimerStepper::setFrequency(); updateTimerPeriod() restarts a started
\* step timer, which leaves it started
TimerSetFrequency(g, hz) ==
  IF hz < MIN_FREQUENCY \/ hz > TIMER_MAX_FREQUENCY THEN GenOut(g, FALSE)
  ELSE GenOut([g EXCEPT !.frequency_hz = hz,
                        !.armed = @ \/ g.state = "RUNNING"], TRUE)

\* resetStepCount() and setTargetSteps(), the same in both classes
resetStepCount(g) == [g EXCEPT !.step_count = 0]

setTargetSteps(g, target_steps) == [g EXCEPT !.target_steps = target_steps]

\* A timer callback that stops the timer with the pulse that reaches the
\* target, and looks at nothing before it pulses.
stepTimerCallback_StopAfter(g) ==
  LET g1 == [g EXCEPT !.step_count = @ + 1, !.pulse_high = TRUE]
  IN IF g.target_steps > 0 /\ g1.step_count >= g.target_steps
     THEN [g1 EXCEPT !.armed = FALSE, !.state = "IDLE"]
     ELSE g1

\* A timer callback that never stops the timer.
stepTimerCallback_Endless(g) ==
  [g EXCEPT !.step_count = @ + 1, !.pulse_high = TRUE]

\* TimerStepper::stepTimerCallback(); step_count_ stays far below 2^32 here
stepTimerCallback(g) ==
  IF g.target_steps > 0 /\ g.step_count >= g.target_steps
  THEN [g EXCEPT !.armed = FALSE, !.state = "IDLE"]
  ELSE [g EXCEPT !.step_count = @ + 1, !.pulse_high = TRUE]

\* TimerStepper::pulseEndCallback()
pulseEndCallback(g) == [g EXCEPT !.pulse_high = FALSE]

\* A call made on both generators.
GenCall(op, arg, p, t) ==
  /\ mcpwm' = p.gen
  /\ timer' = t.gen
  /\ gcall' = [op |-> op, arg |-> arg, ret |-> <<p.ret, t.ret>>]
  /\ UNCHANGED <<Motion, cobs, Planner, Smooth, caller>>

GenInit == \E ok \in BOOLEAN :
  GenCall("init", 0, McpwmInit(mcpwm, ok), TimerInit(timer, ok))

GenSetFrequency == \E hz \in FrequencySet :
  GenCall("setFrequency", hz, StepperSetFrequency(mcpwm, hz),
          TimerSetFrequency(timer, hz))

GenSetTargetSteps == \E n \in 0..MaxSteps :
  GenCall("setTargetSteps", n, GenOut(setTargetSteps(mcpwm, n), TRUE),
          GenOut(setTargetSteps(timer, n), TRUE))

GenResetStepCount ==
  GenCall("resetStepCount", 0, GenOut(resetStepCount(mcpwm), TRUE),
          GenOut(resetStepCount(timer), TRUE))

GenStart == \E ok \in BOOLEAN :
  GenCall("start", 0, StepperStart(mcpwm), TimerStart(timer, ok))

GenStop ==
  GenCall("stop", 0, GenOut(StepperStop(mcpwm), TRUE),
          GenOut(TimerStop(timer), TRUE))

\* The step timer fires.  The PWM peripheral puts out its pulses without a
\* line of McpwmStepper running.  Past MaxSteps only the stopping branch of
\* the callback is followed.
StepTimer ==
  /\ timer.armed
  /\ timer.step_count <= MaxSteps
       \/ (timer.target_steps > 0 /\ timer.step_count >= timer.target_steps)
  /\ GenCall("stepTimerCallback", 0, GenOut(mcpwm, TRUE),
             GenOut(stepTimerCallback(timer), TRUE))

\* The pulse-end timer fires.
PulseEnd ==
  /\ timer.pulse_high
  /\ GenCall("pulseEndCallback", 0, GenOut(mcpwm, TRUE),
             GenOut(pulseEndCallback(timer), TRUE))

NextPulse ==
  \/ GenInit
  \/ GenSetFrequency
  \/ GenSetTargetSteps
  \/ GenResetStepCount
  \/ GenStart
  \/ GenStop
  \/ StepTimer
  \/ PulseEnd

SpecPulse == Init /\ [][NextPulse]_vars

\* The generators with a started move left to run: the target is set, the
\* count reset and stop() called only while the timer generator is Idle,
\* and the step timer, once started, keeps firing.
NextRun ==
  \/ GenInit
  \/ GenSetFrequency
  \/ GenStart
  \/ timer.state = "IDLE" /\ GenSetTargetSteps
  \/ timer.state = "IDLE" /\ GenResetStepCount
  \/ timer.state = "IDLE" /\ GenStop
  \/ StepTimer
  \/ PulseEnd

SpecRun == Init /\ [][NextRun]_vars /\ WF_vars(StepTimer)

\* ------------------------------------- the step timer against its caller
\* A task inside start(), stop() or setFrequency() of the TimerStepper while
\* the timer callbacks run: each action of the task is one access to the
\* timer or to state_, and a callback runs between any two of them.
\* esp_timer_stop() and esp_timer_start_periodic() on step_timer_
esp_timer_stop(g) == [g EXCEPT !.armed = FALSE]
esp_timer_start_periodic(g) == [g EXCEPT !.armed = TRUE]

\* A step of the task on the TimerStepper, leaving it at line pc.
TaskStep(op, arg, g, ret, pc) ==
  /\ timer' = g
  /\ gcall' = [op |-> op, arg |-> arg, ret |-> <<TRUE, ret>>]
  /\ caller' = pc
  /\ UNCHANGED <<Motion, cobs, Planner, Smooth, mcpwm>>

\* init(), setTargetSteps() and resetStepCount() before the generator is
\* started and before a step is counted
TaskInit ==
  /\ caller = "idle" /\ ~timer.initialized
  /\ TaskStep("init", 0, TimerInit(timer, TRUE).gen, TRUE, "idle")

Unstarted ==
  caller = "idle" /\ timer.state = "IDLE" /\ ~timer.armed /\ timer.step_count = 0

TaskSetTargetSteps == \E n \in 1..MaxSteps :
  /\ Unstarted
  /\ TaskStep("setTargetSteps", n, setTargetSteps(timer, n), TRUE, "idle")

TaskResetStepCount ==
  /\ Unstarted
  /\ TaskStep("resetStepCount", 0, resetStepCount(timer), TRUE, "idle")

\* start(): the checks and esp_timer_start_periodic(), then the two writes
TaskStart == \E ok \in BOOLEAN :
  /\ caller = "idle"
  /\ IF ~timer.initialized \/ timer.frequency_hz = 0 \/ ~ok
     THEN TaskStep("start", 0, timer, FALSE, "idle")
     ELSE TaskStep("start", 0, esp_timer_start_periodic(timer), TRUE, "start")

TaskStarted ==
  /\ caller = "start"
  /\ TaskStep("start", 0, [timer EXCEPT !.state = "RUNNING", !.pulse_high = FALSE],
              TRUE, "idle")

\* stop(): the read of state_, esp_timer_stop(), then the two writes
TaskStop ==
  /\ caller = "idle"
  /\ IF timer.state = "IDLE"
     THEN TaskStep("stop", 0, timer, TRUE, "idle")
     ELSE TaskStep("stop", 0, timer, TRUE, "stop")

TaskStopTimer ==
  /\ caller = "stop"
  /\ TaskStep("stop", 0, esp_timer_stop(timer), TRUE, "stopped")

TaskStopped ==
  /\ caller = "stopped"
  /\ TaskStep("stop", 0, [timer EXCEPT !.pulse_high = FALSE, !.state = "IDLE"],
              TRUE, "idle")

\* setFrequency(): the range check, the write of frequency_hz_ and the read
\* of state_; then updateTimerPeriod(), which stops the timer and starts it
SetFrequencySet == {0, MIN_FREQUENCY, TIMER_MAX_FREQUENCY}

TaskSetFrequency == \E hz \in SetFrequencySet :
  /\ caller = "idle"
  /\ IF hz < MIN_FREQUENCY \/ hz > TIMER_MAX_FREQUENCY
     THEN TaskStep("setFrequency", hz, timer, FALSE, "idle")
     ELSE TaskStep("setFrequency", hz, [timer EXCEPT !.frequency_hz = hz], TRUE,
                   IF timer.state = "RUNNING" THEN "updateTimerPeriod" ELSE "idle")

updateTimerPeriodStop ==
  /\ caller = "updateTimerPeriod"
  /\ TaskStep("setFrequency", timer.frequency_hz, esp_timer_stop(timer), TRUE,
              "restart")

updateTimerPeriodStart ==
  /\ caller = "restart"
  /\ TaskStep("setFrequency", timer.frequency_hz,
              esp_timer_start_periodic(timer), TRUE, "idle")

NextIsr ==
  \/ TaskInit
  \/ TaskSetTargetSteps
  \/ TaskResetStepCount
  \/ TaskStart
  \/ TaskStarted
  \/ TaskStop
  \/ TaskStopTimer
  \/ TaskStopped
  \/ TaskSetFrequency
  \/ updateTimerPeriodStop
  \/ updateTimerPeriodStart
  \/ StepTimer
  \/ PulseEnd

SpecIsr == Init /\ [][NextIsr]_vars

\* ------------------------------------------------------------ properties
Moving == {"ACCELERATING", "CRUISING", "DECELERATING"}
MoveCommands == {"startMove", "moveTo", "moveBy", "startVelocity"}

\* The (from, to) pairs of the transition table of the motion controller.
TablePairs ==
  { <<"IDLE", "ACCELERATING">>, <<"IDLE", "HOLDING">>,
    <<"ACCELERATING", "CRUISING">>, <<"ACCELERATING", "DECELERATING">>,
    <<"CRUISING", "DECELERATING">>, <<"DECELERATING", "HOLDING">>,
    <<"DECELERATING", "IDLE">>, <<"IDLE", "FAULT">>, <<"HOLDING", "FAULT">>,
    <<"FAULT", "IDLE">> }
    \cup { <<x, "DECELERATING">> : x \in Moving }
    \cup { <<x, "IDLE">> : x \in MotionStates }

\* C1: every change of the controller state is a (from, to) pair of the
\* transition table; stop() adds moving -> Decelerating and emergency_stop()
\* any -> Idle.  No other pair occurs.
C1_OnlyTableTransitions ==
  [][mc'.state # mc.state => <<mc.state, mc'.state>> \in TablePairs]_vars

\* C2: in every reachable state the velocity is at least min_velocity while
\* the state is Accelerating, Cruising or Decelerating, and is 0 while the
\* state is Idle or Holding.
C2_VelocityFloor ==
  /\ mc.state \in Moving => mc.current_velocity >= mc.config.min_velocity
  /\ mc.state \in {"IDLE", "HOLDING"} => mc.current_velocity = 0

\* C3: emergency_stop() returns with state Idle, velocity 0 and the pulse
\* generator not running, whatever the state it was called in.
C3_EmergencyStopImmediate ==
  hist.op = "emergencyStop" =>
    /\ mc.state = "IDLE"
    /\ mc.current_velocity = 0
    /\ ~StepperIsRunning(gen)

\* emergency_stop() was called during a move with the generator pulsing
C3_Witness ==
  /\ hist.op = "emergencyStop"
  /\ hist.from \in Moving
  /\ hist.was_running
  /\ mc.state = "IDLE"

\* C4: stop() in a moving state leaves the state Decelerating and the pulse
\* generator as it was; stop() in Idle or Holding changes nothing.
C4_CooperativeStop ==
  [][hist'.op = "stop" =>
       /\ mc.state \in Moving => (mc'.state = "DECELERATING" /\ gen' = gen)
       /\ mc.state \in {"IDLE", "HOLDING"} =>
            (mc' = mc /\ gen' = gen /\ drv' = drv)]_vars

\* stop() was called while cruising with the generator pulsing
C4_Witness ==
  /\ hist.op = "stop"
  /\ hist.from = "CRUISING"
  /\ hist.was_running
  /\ mc.state = "DECELERATING"
  /\ StepperIsRunning(gen)

\* C5: with driver and generator attached, move_to(p) at position p, and
\* move_by(0), return true and leave Holding, in_motion false and
\* distance_to_go 0.
C5_TrivialMove ==
  (/\ isHardwareAttached(Cur)
   /\ \/ hist.op = "moveTo" /\ hist.arg = mc.current_position
      \/ hist.op = "moveBy" /\ hist.arg = 0)
  => /\ hist.ret
     /\ mc.state = "HOLDING"
     /\ ~getStatus(mc).in_motion
     /\ getStatus(mc).distance_to_go = 0

\* move_to(p) at a position p other than 0, the earlier target being elsewhere
C5_Witness ==
  /\ isHardwareAttached(Cur)
  /\ hist.op = "moveTo"
  /\ hist.arg = mc.current_position
  /\ hist.arg # 0
  /\ hist.from = "IDLE"
  /\ mc.state = "HOLDING"

\* C6: a move_to(p) with p other than the current position c that returns
\* true leaves Accelerating, target p, direction CW for p > c and CCW for
\* p < c, and the generator running at min_velocity; move_by(d), d # 0,
\* likewise with target c + d.
C6_MoveStartsMotion ==
  (/\ hist.ret
   /\ \/ hist.op = "moveTo" /\ hist.arg # mc.current_position
      \/ hist.op = "moveBy" /\ hist.arg # 0)
  => /\ mc.state = "ACCELERATING"
     /\ mc.target_position =
          IF hist.op = "moveTo" THEN hist.arg ELSE mc.current_position + hist.arg
     /\ drv.direction =
          IF mc.target_position > mc.current_position THEN "CW" ELSE "CCW"
     /\ StepperIsRunning(gen)
     /\ gen.frequency_hz = mc.config.min_velocity

\* C7: a move command that returns false leaves state, target position,
\* velocities, active parameters and the enabled flag as they were.
C7_FailedCommandNoEffect ==
  [][(hist'.op \in MoveCommands /\ ~hist'.ret) =>
       /\ mc'.state = mc.state
       /\ mc'.target_position = mc.target_position
       /\ mc'.current_velocity = mc.current_velocity
       /\ mc'.target_velocity = mc.target_velocity
       /\ mc'.active_params = mc.active_params
       /\ mc'.enabled = mc.enabled]_vars

\* C9: the current position is written by tick (the driver's position) and by
\* set_position / reset_position only; every other call leaves it unchanged.
C9_PositionWriters ==
  [][/\ hist'.op \notin {"tick", "setPosition", "resetPosition"} =>
          mc'.current_position = mc.current_position
     /\ hist'.op = "tick" =>
          mc'.current_position \in {mc.current_position, drv.position}
     /\ hist'.op = "setPosition" => mc'.current_position = hist'.arg
     /\ hist'.op = "resetPosition" => mc'.current_position = 0]_vars

\* set_config() was called while moving at speed, the driver's position
\* being ahead of the controller's copy
C9_Witness ==
  /\ hist.op = "setConfig"
  /\ mc.state \in Moving
  /\ mc.current_velocity > 0
  /\ drv.position # mc.current_position

\* C8: once the state is Fault, no call other than clear_fault changes it.
C8_FaultLatched ==
  [][(mc.state = "FAULT" /\ hist'.op # "clearFault") => mc'.state = "FAULT"]_vars

\* C10: when emergency_stop() has overlapped a tick() and both have returned,
\* the state is Idle, the velocity 0 and the generator stopped, as after
\* either serial order of the two calls.
C10_EmergencyStopSerializable ==
  (es.pc = "returned" /\ es.overlap /\ tk.pc = "idle") =>
    /\ mc.state = "IDLE"
    /\ mc.current_velocity = 0
    /\ ~StepperIsRunning(gen)

\* ------------------------------------------------ byte stuffing, claims
\* C11: for every byte sequence x of at most 250 bytes, cobs_decode of the
\* output of cobs_encode(x) returns x: the same length and the same bytes.
C11_RoundTrip ==
  (cobs.op = "roundtrip" /\ Len(cobs.input) <= COBS_MAX_INPUT_SIZE) =>
    /\ cobs.dec.len = Len(cobs.input)
    /\ Returned(cobs.dec) = cobs.input

\* a full-size input ending in the delimiter went through both calls
C11_Witness ==
  /\ cobs.op = "roundtrip"
  /\ Len(cobs.input) = COBS_MAX_INPUT_SIZE
  /\ cobs.input[COBS_MAX_INPUT_SIZE] = 0
  /\ Returned(cobs.dec) = cobs.input

\* C12: for every input cobs_encode accepts, no byte of the output is 0x00
\* and the output length lies between input_len + 1 and
\* input_len + ceil(input_len / 254) + 1.
C12_NoDelimiterInOutput ==
  (cobs.op = "encode" /\ cobs.enc.len # 0) =>
    /\ \A i \in 1..cobs.enc.len : cobs.enc.out[i] \in 1..255
    /\ cobs.enc.len >= Len(cobs.input) + 1
    /\ cobs.enc.len <= Len(cobs.input) + (Len(cobs.input) + 253) \div 254 + 1

\* an input of delimiters only was encoded
C12_Witness ==
  /\ cobs.op = "encode"
  /\ Len(cobs.input) = MaxLen
  /\ \A i \in 1..MaxLen : cobs.input[i] = 0
  /\ cobs.enc.len = MaxLen + 1

\* The block the decoder's walk over the code bytes stops in: past the end
\* when every block is whole.
RECURSIVE Walk(_, _, _)
Walk(input, n, p) ==
  IF n = 0 \/ p > Len(input) THEN p
  ELSE IF input[p] = 0 \/ p + input[p] - 1 > Len(input) THEN p
  ELSE IF n = 1 THEN p + input[p]
  ELSE Walk(input, n - n \div 2, Walk(input, n \div 2, p))

\* The last block of the input is a code byte c with fewer than c - 1 bytes
\* after it.
Truncated(input) ==
  LET p == Walk(input, Len(input), 1)
  IN p <= Len(input) /\ input[p] # 0 /\ p + input[p] - 1 > Len(input)

\* C13: cobs_decode returns 0 for every input with a 0x00 byte at any
\* position and for every input whose last block is truncated.
C13_DecodeStrict ==
  (cobs.op = "decode" /\
     ((\E i \in 1..Len(cobs.input) : cobs.input[i] = 0) \/ Truncated(cobs.input)))
  => cobs.dec.len = 0

\* C14: cobs_encode returns 0, with nothing written, for every input longer
\* than 250 bytes, returns 0 for the empty input, and returns a length other
\* than 0 for every input of 1..250 bytes.
C14_EncodeRefuses ==
  cobs.op = "encode" =>
    /\ Len(cobs.input) > COBS_MAX_INPUT_SIZE => cobs.enc = NoBuffer
    /\ Len(cobs.input) = 0 => cobs.enc.len = 0
    /\ Len(cobs.input) \in 1..COBS_MAX_INPUT_SIZE => cobs.enc.len # 0

\* an input one byte over the limit was refused
C14_Witness ==
  /\ cobs.op = "encode"
  /\ Len(cobs.input) = COBS_MAX_INPUT_SIZE + 1
  /\ cobs.enc = NoBuffer

\* C15: the serialized form of every frame with a payload of 0..250 bytes is
\* accepted by the encoder, and unstuffing gives back the same message_id,
\* payload and CRC.
C15_FrameOnTheWire ==
  /\ cobs.op \in {"frame", "unframe"} => cobs.enc.len # 0
  /\ cobs.op = "unframe" =>
       /\ cobs.dec.len = Len(Serialize(cobs.frame))
       /\ Parse(Returned(cobs.dec)) = cobs.frame

\* ---- trapezoidal trajectory, claims

\* The move of the caller as plan() reads it: the length of the move and the
\* deceleration, which is the acceleration when none is given.
Length == IF tmove.distance >= 0 THEN tmove.distance ELSE 0 - tmove.distance
Decel == IF tmove.deceleration = 0 THEN tmove.acceleration ELSE tmove.deceleration

\* The plan is the full trapezoid at max_velocity, or else a triangle that
\* stays below max_velocity.
ProfileIs(trapezoid) ==
  IF trapezoid
  THEN ~traj.timing.is_triangle /\ traj.timing.peak_velocity = tmove.max_velocity
  ELSE traj.timing.is_triangle /\ traj.timing.peak_velocity < tmove.max_velocity

\* C16 as stated: a successful plan is the full trapezoid at max_velocity
\* exactly when |distance| >= v^2/(2a) + v^2/(2d), the quotients being exact
\* (both sides multiplied by 2ad), and otherwise a triangle with a peak
\* strictly below max_velocity.
C16_ExactQuotients ==
  traj.planned =>
    ProfileIs(2 * tmove.acceleration * Decel * Length
                >= tmove.max_velocity * tmove.max_velocity
                     * (tmove.acceleration + Decel))

\* C16 amended: a successful plan is the full trapezoid at max_velocity
\* exactly when |distance| >= v^2/(2a) + v^2/(2d) with each quotient rounded
\* down to whole steps, and otherwise a triangle with a peak strictly below
\* max_velocity.
C16_ProfileSelection ==
  traj.planned =>
    ProfileIs(Length >= (tmove.max_velocity * tmove.max_velocity)
                           \div (2 * tmove.acceleration)
                        + (tmove.max_velocity * tmove.max_velocity)
                           \div (2 * Decel))

\* A planned triangle whose peak is above zero and more than one step per
\* second below max_velocity.
C16_Witness ==
  /\ traj.planned
  /\ traj.timing.is_triangle
  /\ traj.timing.peak_velocity > 0
  /\ tmove.max_velocity > traj.timing.peak_velocity + 1

\* C17: in every successful plan, trapezoid or triangle, accel_distance,
\* cruise_distance and decel_distance are each at least 0 and their sum is
\* within one step of |distance|.
C17_DistancesSum ==
  traj.planned =>
    LET sum == traj.timing.accel_distance + traj.timing.cruise_distance
                 + traj.timing.decel_distance
    IN /\ traj.timing.accel_distance >= 0
       /\ traj.timing.cruise_distance >= 0
       /\ traj.timing.decel_distance >= 0
       /\ sum - Length <= 1
       /\ Length - sum <= 1

\* A planned backward move with all three distances above zero.
C17_Witness ==
  /\ traj.planned
  /\ tmove.distance < 0
  /\ traj.timing.accel_distance > 0
  /\ traj.timing.cruise_distance > 0
  /\ traj.timing.decel_distance > 0

\* An update() call made in phase from that leaves the trajectory in phase to.
UpdateWithin(from, to) ==
  /\ tcall'.op = "update"
  /\ traj.started
  /\ traj.phase = from
  /\ traj'.phase = to

\* C18: from one update call to the next the velocity never decreases while
\* the phase is Accel, equals peak_velocity while the phase is Cruise, and
\* never increases while the phase is Decel, whatever start_velocity and
\* end_velocity plan accepted.
C18_VelocityShape ==
  [][/\ UpdateWithin("ACCEL", "ACCEL") =>
          traj'.current_velocity >= traj.current_velocity
     /\ (tcall'.op = "update" /\ traj'.phase = "CRUISE") =>
          traj'.current_velocity = traj'.timing.peak_velocity
     /\ UpdateWithin("DECEL", "DECEL") =>
          traj'.current_velocity <= traj.current_velocity]_vars

\* C19: once the trajectory is Complete, the position every update call
\* reports and the position getCurrentPosition gives are the planned distance
\* with its sign.
C19_FinalPosition ==
  (tcall.op = "update" /\ traj.started /\ traj.phase = "COMPLETE") =>
    /\ tcall.state.position = tmove.distance
    /\ getCurrentPosition(traj) = tmove.distance

\* C20: update(0) on a started trajectory, in any phase and for every plan,
\* leaves phase, elapsed time, position and velocity as they were.
C20_ZeroStepIsIdle ==
  [][(tcall'.op = "update" /\ tcall'.arg = 0 /\ traj.started) =>
       /\ traj'.phase = traj.phase
       /\ traj'.elapsed_us = traj.elapsed_us
       /\ traj'.current_position = traj.current_position
       /\ traj'.current_velocity = traj.current_velocity]_vars

\* C21: a plan() of the trapezoid planner with max_velocity or acceleration
\* zero, and a plan() of the S-curve planner with max_velocity,
\* max_acceleration or max_jerk zero, returns false and leaves the planner as it
\* was: parameters, timing, phase, planned and started flags, position,
\* velocity and direction.
C21_RejectedPlan ==
  [][/\ (tcall' # tcall /\ tcall'.op = "plan"
            /\ (tcall'.arg.max_velocity = 0 \/ tcall'.arg.acceleration = 0))
          => (~tcall'.ret /\ traj' = traj)
     /\ (scall' # scall /\ scall'.op = "plan"
            /\ (scall'.arg.max_velocity = 0 \/ scall'.arg.max_acceleration = 0
                  \/ scall'.arg.max_jerk = 0))
          => (~scall'.ret /\ scurve' = scurve)]_vars

\* An S-curve under way, a phase past its first, whose last call was a plan()
\* with max_jerk zero that returned false.
C21_Witness ==
  /\ scall.op = "plan" /\ ~scall.ret
  /\ scall.arg.max_jerk = 0 /\ scall.arg.max_velocity # 0
  /\ scurve.started /\ scurve.phase = "JERK_ACCEL_FALL"
  /\ scurve.current_velocity > 0

\* The phases of a move in the order of SCurvePhase, and the place of a
\* phase in it.
PhaseOrder ==
  <<"JERK_ACCEL_RISE", "CONST_ACCEL", "JERK_ACCEL_FALL", "CRUISE",
    "JERK_DECEL_RISE", "CONST_DECEL", "JERK_DECEL_FALL", "COMPLETE">>

Rank(phase) == CHOOSE i \in 1..Len(PhaseOrder) : PhaseOrder[i] = phase

\* C22: an update() of the S-curve that changes the phase moves it to the
\* next phase of the order JERK_ACCEL_RISE, CONST_ACCEL, JERK_ACCEL_FALL,
\* CRUISE, JERK_DECEL_RISE, CONST_DECEL, JERK_DECEL_FALL, COMPLETE, or
\* passes over CONST_ACCEL, CRUISE or CONST_DECEL when the planned time of
\* the phase passed over is 0; it never moves the phase backward.
C22_PhaseOrder ==
  [][(scall'.op = "update" /\ scurve'.phase # scurve.phase) =>
       LET from == scurve.phase
           to == scurve'.phase
           tm == scurve.timing
       IN \/ Rank(to) = Rank(from) + 1
          \/ from = "JERK_ACCEL_RISE" /\ to = "JERK_ACCEL_FALL"
                /\ tm.t_const_accel = 0
          \/ from = "JERK_ACCEL_FALL" /\ to = "JERK_DECEL_RISE"
                /\ tm.t_cruise = 0
          \/ from = "JERK_DECEL_RISE" /\ to = "JERK_DECEL_FALL"
                /\ tm.t_const_decel = 0]_vars

\* A move with a constant-acceleration phase, a cruise and a
\* constant-deceleration phase, carried by update() to COMPLETE.
C22_Witness ==
  /\ scall.op = "update" /\ scurve.phase = "COMPLETE"
  /\ scurve.timing.t_const_accel > 0 /\ scurve.timing.t_cruise > 0
  /\ scurve.timing.t_const_decel > 0
\* The condition of the full profile: twice the velocity gained in one jerk
\* phase is below max_velocity and the distance holds the acceleration and
\* the deceleration distance, computed as computeFullProfile() computes them.
FullCondition(p) ==
  LET j == p.max_jerk
      a == p.max_acceleration
      v_jerk == (a * a) \div (2 * j)
  IN /\ 2 * v_jerk < p.max_velocity
     /\ p.distance >= 2 * FullTravel(p, (a * 1000000) \div j,
                                     ((p.max_velocity - 2 * v_jerk) * 1000000) \div a)

\* C23: a plan() of the S-curve that returns true stores the full profile,
\* is_reduced false and v_achieved = max_velocity, exactly when twice v_jerk is
\* below max_velocity and the distance holds the acceleration and deceleration
\* distances; in every other case it stores is_reduced true and a v_achieved
\* strictly below max_velocity.
C23_ProfileSelection ==
  (scall.op = "plan" /\ scall.ret) =>
    IF FullCondition(scurve.params)
    THEN ~scurve.timing.is_reduced
           /\ scurve.timing.v_achieved = scurve.params.max_velocity
    ELSE scurve.timing.is_reduced
           /\ scurve.timing.v_achieved < scurve.params.max_velocity
\* The larger of two numbers; Abs is the magnitude.
Larger(x, y) == IF x >= y THEN x ELSE y

\* C24: when an update(dt) of the S-curve changes the phase, the
\* acceleration it reports differs from the acceleration reported before by
\* at most the jerk step max_jerk * dt / 10^6 plus one, and the velocity it
\* reports differs from the velocity reported before by at most the
\* acceleration step |a| * dt / 10^6 plus one, |a| the largest of the two
\* reported accelerations and a_achieved.
C24_Continuity ==
  [][(scall'.op = "update" /\ scall.op \in {"start", "update"}
        /\ scurve'.phase # scurve.phase) =>
       LET dt_us == scall'.arg
           before == scall.state
           after == scall'.state
           a == Larger(Larger(Abs(before.acceleration), Abs(after.acceleration)),
                       scurve.timing.a_achieved)
       IN /\ Abs(after.acceleration - before.acceleration)
               <= (scurve.params.max_jerk * dt_us) \div 1000000 + 1
          /\ Abs(after.velocity - before.velocity)
               <= (a * dt_us) \div 1000000 + 1]_vars
\* What setFrequency(hz) does to a generator g with the cap max, g2 the
\* generator after it and ret the value returned.
FrequencyContract(g, g2, ret, hz, max) ==
  IF hz = 0 \/ hz > max
  THEN ~ret /\ g2.frequency_hz = g.frequency_hz /\ g2.state = g.state
  ELSE ret /\ g2.frequency_hz = hz

\* C25: setFrequency(hz) of either generator returns false and leaves the
\* stored frequency and the state as they were when hz = 0 or hz is above
\* the cap, 500000 for the PWM generator and 50000 for the timer generator;
\* for every other hz it returns true and stores hz.
C25_SetFrequency ==
  [][gcall'.op = "setFrequency" =>
       /\ FrequencyContract(mcpwm, mcpwm', gcall'.ret[1], gcall'.arg, 500000)
       /\ FrequencyContract(timer, timer', gcall'.ret[2], gcall'.arg, 50000)]_vars

\* The two generators running at 50000 Hz, a setFrequency(50001) just
\* taken by the PWM generator and refused by the timer generator.
C25_Witness ==
  /\ gcall.op = "setFrequency" /\ gcall.arg = 50001
  /\ gcall.ret = <<TRUE, FALSE>>
  /\ timer.state = "RUNNING" /\ timer.frequency_hz = 50000
  /\ mcpwm.state = "RUNNING" /\ mcpwm.frequency_hz = 50001

\* What start() does to a generator g, g2 the generator after it and ret
\* the value returned.
StartContract(g, g2, ret) ==
  /\ ret => (g.initialized /\ g.frequency_hz # 0 /\ g2.state = "RUNNING")
  /\ ~(g.initialized /\ g.frequency_hz # 0) =>
       (~ret /\ g.state = "IDLE" /\ g2.state = "IDLE")

\* What stop() does to a generator g, g2 the generator after it.
StopContract(g, g2) ==
  /\ g.state = "IDLE" => g2 = g
  /\ g2.state = "IDLE"

\* C26: start() of either generator returns true, and the generator is then
\* Running, only if init() has succeeded and a non-zero frequency is
\* stored; without them it returns false and the generator stays Idle.
\* stop() on an Idle generator changes nothing, and after every stop() the
\* generator is Idle.
C26_StartStop ==
  [][/\ gcall'.op = "start" =>
          /\ StartContract(mcpwm, mcpwm', gcall'.ret[1])
          /\ StartContract(timer, timer', gcall'.ret[2])
     /\ gcall'.op = "stop" =>
          /\ StopContract(mcpwm, mcpwm')
          /\ StopContract(timer, timer')]_vars

\* A start() just refused by both generators, which hold a frequency and
\* were never initialised.
C26_Witness ==
  /\ gcall.op = "start" /\ gcall.ret = <<FALSE, FALSE>>
  /\ ~timer.initialized /\ timer.frequency_hz # 0 /\ timer.state = "IDLE"
  /\ ~mcpwm.initialized /\ mcpwm.frequency_hz # 0 /\ mcpwm.state = "IDLE"

\* C28: given the same calls and pulses, with frequencies up to the lower
\* cap, the PWM generator and the timer generator are in the same state
\* and report the same step count.
C28_SameBehaviour ==
  mcpwm.frequency_hz <= TIMER_MAX_FREQUENCY =>
    /\ mcpwm.state = timer.state
    /\ mcpwm.step_count = timer.step_count
\* C27: a timer generator that runs with a target above zero is in the end
\* Idle with a step count at or above the target, when nothing is called on
\* it while it runs and its step timer keeps firing; and a generator whose
\* step count is at or above a target above zero raises the step pin no
\* more, and counts no more, unless the count is reset.
C27_AutoStop ==
  /\ (timer.state = "RUNNING" /\ timer.target_steps > 0)
       ~> (timer.state = "IDLE" /\ timer.step_count >= timer.target_steps)
  /\ [][(timer.target_steps > 0 /\ timer.step_count >= timer.target_steps) =>
          /\ timer'.step_count = timer.step_count
                \/ gcall'.op = "resetStepCount"
          /\ timer'.pulse_high => timer.pulse_high]_vars

\* A timer generator just stopped by its callback at the target of two
\* steps.
C27_Witness ==
  /\ gcall.op = "stepTimerCallback"
  /\ timer.state = "IDLE" /\ ~timer.armed
  /\ timer.target_steps = 2 /\ timer.step_count = 2
\* The distance left to the target.
Remaining(m) == Abs(m.target_position - m.current_position)

\* C29: after a tick() that ran in Accelerating or Cruising on a move that
\* is not a velocity move, the controller is Decelerating if the distance
\* left is at most v * v / (2 * a), as an exact quotient and equality
\* included, v the velocity after the tick and a the active acceleration; it
\* is not Decelerating if the distance left is above it.
C29_DecelerationPredicate ==
  [][(hist'.op = "tick" /\ mc.state \in {"ACCELERATING", "CRUISING"}
        /\ mc.active_params.move_type # "VELOCITY") =>
       ((mc'.state = "DECELERATING") <=>
          (2 * activeAccel(mc') * Remaining(mc')
             <= mc'.current_velocity * mc'.current_velocity))]_vars

\* A tick() has just started the deceleration at equality: velocity 2,
\* acceleration 2 and one step left, which a tick() that ran in
\* Decelerating would have ended in Holding.
C29_Witness ==
  /\ hist.op = "tick" /\ mc.state = "DECELERATING"
  /\ mc.active_params.move_type # "VELOCITY"
  /\ mc.current_velocity = 2 /\ activeAccel(mc) = 2 /\ Remaining(mc) = 1
  /\ mc.config.position_tolerance = 1

\* What a tick(dt_us) that runs in Decelerating leaves, by the velocity its
\* update gives and the distance left.
DeceleratingTick(dt_us) ==
  LET v == updateVelocity(mc, dt_us).current_velocity
  IN IF Remaining(mc') <= mc.config.position_tolerance
     THEN mc'.state = "HOLDING" /\ mc'.current_velocity = 0
            /\ ~StepperIsRunning(gen')
     ELSE IF v <= mc.config.min_velocity
     THEN mc'.state = "IDLE" /\ mc'.current_velocity = 0
            /\ ~StepperIsRunning(gen')
     ELSE mc'.state = "DECELERATING" /\ mc'.current_velocity = v

\* C30: a tick() that runs in Decelerating ends in Holding exactly when the
\* distance left is at most position_tolerance, otherwise in Idle exactly
\* when the velocity is at most min_velocity, and otherwise stays
\* Decelerating; both exits leave the generator stopped and the velocity 0;
\* and the controller goes from Accelerating, Cruising or Decelerating to
\* Holding by no other step.
C30_DeceleratingExits ==
  [][/\ (hist'.op = "tick" /\ mc.state = "DECELERATING") =>
          \E dt_us \in DtSet : DeceleratingTick(dt_us)
     /\ (isMoving(mc) /\ mc'.state = "HOLDING") =>
          /\ hist'.op = "tick" /\ mc.state = "DECELERATING"
          /\ Remaining(mc') <= mc.config.position_tolerance]_vars
\* The larger of the velocity and the configured floor.
FloorVelocity(m) ==
  IF m.current_velocity >= m.config.min_velocity THEN m.current_velocity
  ELSE m.config.min_velocity

\* C31: after a tick(dt_us) with dt_us > 0 that starts in a moving state and
\* ends in one, the frequency of the attached pulse generator is the larger
\* of the controller's velocity and min_velocity.
C31_FrequencyFollowsVelocity ==
  [][\A dt_us \in DtSet \ {0} :
       (/\ hist'.op = "tick" /\ isMoving(mc) /\ mc.stepper_attached
        /\ mc' = tick(Cur, dt_us).mc /\ gen' = tick(Cur, dt_us).gen
        /\ isMoving(mc'))
       => gen'.frequency_hz = FloorVelocity(mc')]_vars
\* The controller, driver and generator a call leaves.
After(r) == <<r.mc, r.drv, r.gen>>

\* startVelocity(velocity) with velocity # 0 that returns true.
VelocityStarted(velocity) ==
  /\ mc'.state = "ACCELERATING"
  /\ mc'.target_velocity = Abs(velocity)
  /\ drv'.direction = IF velocity > 0 THEN "CW" ELSE "CCW"

\* A tick() in velocity mode never takes the controller into Decelerating.
NoTickDeceleration ==
  (hist'.op = "tick" /\ mc.active_params.move_type = "VELOCITY"
     /\ mc.state # "DECELERATING")
  => mc'.state # "DECELERATING"

\* Every successful start_velocity(v), v # 0, starts the velocity move.
NonZeroStarts ==
  \A v \in {0 - MaxVel, MaxVel} :
    (/\ hist'.op = "startVelocity" /\ hist'.ret
     /\ <<mc', drv', gen'>> = After(startVelocity(Cur, v)))
    => VelocityStarted(v)

Stopping == mc.state = "DECELERATING" /\ mc.target_velocity = 0

\* C33: after stop() was called in a moving state, no tick() of the motion
\* task raises the velocity, and the ticks bring the controller to Idle or
\* Holding with the pulse generator stopped.
C33_StopCompletes ==
  /\ [][(Stopping /\ hist'.op = "tick")
          => mc'.current_velocity <= mc.current_velocity]_vars
  /\ (hist.op = "stop" /\ Stopping)
       ~> (mc.state \in {"IDLE", "HOLDING"} /\ ~StepperIsRunning(gen))
\* A started move planned to last no longer than MaxSeconds.
TrapezoidUnderway ==
  traj.started /\ traj.timing.total_time_us <= MaxSeconds * 1000000
SCurveUnderway ==
  scurve.started /\ scurve.timing.total_time_us <= MaxSeconds * 1000000

\* The phase, position and velocity a trajectory object answers with.
Held(t) == <<t.phase, t.current_position * t.direction, t.current_velocity>>

\* C34: a planned and started trapezoidal or S-curve move, updated again
\* and again with dt_us > 0, reaches COMPLETE; and an update() of a COMPLETE
\* trajectory leaves its phase, position and velocity as they are.
C34_Termination ==
  /\ TrapezoidUnderway ~> traj.phase = "COMPLETE"
  /\ SCurveUnderway ~> scurve.phase = "COMPLETE"
  /\ [][/\ (tcall'.op = "update" /\ traj.phase = "COMPLETE")
            => Held(traj') = Held(traj)
        /\ (scall'.op = "update" /\ scurve.phase = "COMPLETE")
            => Held(scurve') = Held(scurve)]_vars
\* An S-curve move of more than three seconds has been run to COMPLETE by
\* its updates.
C34_Witness ==
  /\ scall.op = "update" /\ scurve.phase = "COMPLETE"
  /\ scurve.timing.total_time_us > 3000000
  /\ scurve.current_position = scurve.params.distance

\* C35: whenever the controller is Idle or Holding with a pulse generator
\* attached, that generator is not running.
C35_RestMeansNoPulses ==
  (mc.stepper_attached /\ mc.state \in {"IDLE", "HOLDING"})
    => ~StepperIsRunning(gen)

\* C36: in every state reachable from a newly constructed controller by the
\* public operations, the state is Idle, Accelerating, Cruising, Decelerating
\* or Holding; it is never Fault and never Homing.
C36_FiveStates ==
  mc.state \in {"IDLE", "ACCELERATING", "CRUISING", "DECELERATING", "HOLDING"}

\* A homing move was asked for during a positioning move and refused: the
\* request is stored and the controller goes on cruising.
C36_Witness ==
  /\ hist.op = "startMove" /\ ~hist.ret
  /\ mc.active_params.move_type = "HOMING"
  /\ mc.state = "CRUISING"

\* C37: with a target of n > 0 steps set before the TimerStepper is started,
\* and target and count left alone afterwards, step_count never exceeds n,
\* however the timer callbacks fall between the lines of the task's start(),
\* stop() and setFrequency().
C37_PulseBound ==
  timer.target_steps > 0 => timer.step_count <= timer.target_steps

\* The callback has counted the last step and stopped the generator, and a
\* setFrequency() that had read state_ before that has started the timer
\* again.
C37_Witness ==
  /\ gcall.op = "setFrequency" /\ caller = "idle"
  /\ timer.target_steps > 0 /\ timer.step_count = timer.target_steps
  /\ timer.state = "IDLE" /\ timer.armed

\* C38: the position an update() of a started trapezoidal move reports has a
\* magnitude of at most the planned distance, and the remaining distance it
\* reports never has the sign against the move's direction.
C38_PositionWithinMove ==
  (tcall.op = "update" /\ traj.started) =>
    /\ Abs(tcall.state.position) <= traj.params.distance
    /\ tcall.state.remaining * traj.direction >= 0

\* C39: an update(dt_us) of a started S-curve move changes the position by
\* at most max_velocity * dt_us / 10^6 + 1 steps, the update that enters
\* COMPLETE included.
C39_BoundedStep ==
  [][(scall'.op = "update" /\ scurve.started) =>
       Abs(scurve'.current_position - scurve.current_position)
         <= (scurve.params.max_velocity * scall'.arg) \div 1000000 + 1]_vars

\* C40: a plan() of the S-curve that returns true stores a v_achieved of at
\* most max_velocity and an a_achieved of at most max_acceleration.
C40_LimitsRespected ==
  (scall.op = "plan" /\ scall.ret) =>
    /\ scurve.timing.v_achieved <= scurve.params.max_velocity
    /\ scurve.timing.a_achieved <= scurve.params.max_acceleration
====
